---------------------------- MODULE Spec2Model ----------------------------
(***************************************************************************)
(* Model of the SwiftGraphRag knowledge store and retrieval pipeline:      *)
(* rag_engine/store.py (DuckDBStore), rag_engine/loader.py                 *)
(* (DocumentIngestor), rag_engine/graph.py (GraphRAG.retrieve, generate    *)
(* and run, with the consumer of the answer run returns),                  *)
(* rag_engine/summarization.py (generate_summary), and of the views of     *)
(* core/views.py that keep the members of a space, take and delete its     *)
(* documents and serve it.                                                 *)
(*                                                                         *)
(* Representation.  A word of text is a sequence of one-character strings  *)
(* (so that the first character, the length and trailing punctuation can   *)
(* be inspected); a text is a sequence of characters, split into words at  *)
(* white space as str.split() does.  Tenant ids, document sources and      *)
(* chunk ids are strings and chunk ids are built by string concatenation   *)
(* exactly as the f-strings of the loader build them.  The tables chunks   *)
(* and edges are sequences of rows in insertion order; the table nodes,    *)
(* whose id is a primary key, is a function from id to row.  An edge row   *)
(* carries one field the program does not store, origin: the tenant and    *)
(* document whose ingestion wrote it; no operation of the model reads it.  *)
(***************************************************************************)
EXTENDS Integers, Sequences, FiniteSets, TLC

VARIABLES
    chunks,     \* table chunks(id, space_id, content, embedding, metadata)
    nodes,      \* table nodes(id PRIMARY KEY, label, properties)
    edges,      \* table edges(source, target, label, properties)
    vss,        \* TRUE iff the similarity operator is usable (_init_extensions)
    prev,       \* history: the three tables as they were when the last call began
    last,       \* history: the last completed call, its arguments and its result
    pipeline,   \* the call of GraphRAG.run in progress and the answer it returned
    summary,    \* the last call of generate_summary, its arguments and its result
    site,       \* the web application's records: users, spaces, permissions,
                \* documents, and the last request with its response
    running     \* the store calls in progress, statement by statement

vars == <<chunks, nodes, edges, vss, prev, last, pipeline, summary, site, running>>

-----------------------------------------------------------------------------
(* Bounds of the model *)

\* ingest / ingest_url are only called while the chunks table holds fewer rows
MaxChunks == 2

\* search_vectors is called directly with k in 1..MaxK
MaxK == 2

\* the consumer of an answer iterates over it at most MaxPasses times
MaxPasses == 2

\* a call that runs statement by statement is only begun while the edges
\* table holds fewer than MaxEdges rows
MaxEdges == 2

-----------------------------------------------------------------------------
(* Program constants *)

\* threshold = 0.3, kept as the fraction ThresholdNum / ThresholdDen
ThresholdNum == 3
ThresholdDen == 10

\* batch_size of delete_space
batch_size == 1000

\* k passed by retrieve to search_vectors
retrieve_k == 5

\* cap on the entities handed to get_graph_context by retrieve
entity_cap == 5

-----------------------------------------------------------------------------
(* Texts *)

\* A text (a chunk's page_content, a question) is a sequence of one-character
\* strings; Join writes the texts of the model from their words.
UpperChars == {"A", "B"}
PunctChars == {".", ","}
Whitespace == {" "}

Acme    == <<"A", "c", "m", "e">>
Beta    == <<"B", "e", "t", "a">>
BetaDot == <<"B", "e", "t", "a", ".">>
Bob     == <<"B", "o", "b">>
cats    == <<"c", "a", "t", "s">>

RECURSIVE Join(_)
Join(words) ==
    IF words = <<>> THEN <<>>
    ELSE IF Len(words) = 1 THEN words[1]
    ELSE words[1] \o <<" ">> \o Join(Tail(words))

\* chunk contents (page_content of a split)
TextA  == Join(<<Acme>>)
TextAB == Join(<<Acme, BetaDot>>)
TextBA == Join(<<cats, Bob, Beta, Acme>>)
TextL  == Join(<<cats>>)

\* documents as the splitter returns them, a sequence of chunk contents each:
\* the files uploaded and the pages fetched
FileDocs == { <<TextA>>, <<TextL, TextBA>> }
UrlDocs  == { <<TextAB>> }

Tenants     == {"1", "2"}
FileSources == {"7"}
Urls        == {"u", "v"}
Titles      == FileSources \cup Urls

\* target_doc as retrieve and search_vectors receive it; "" stands for None
TargetDocs  == {"", "all", "7"}

\* questions put to retrieve, and the text_query of search_vectors
Questions   == {TextA, TextL}

-----------------------------------------------------------------------------
(* Ingestor: entity heuristic, chunk ids, embedding *)

RECURSIVE StripLeft(_)
StripLeft(w) ==
    IF w # <<>> /\ Head(w) \in PunctChars THEN StripLeft(Tail(w)) ELSE w

RECURSIVE StripRight(_)
StripRight(w) ==
    IF w # <<>> /\ w[Len(w)] \in PunctChars
    THEN StripRight(SubSeq(w, 1, Len(w) - 1))
    ELSE w

\* w.strip(".,")
Strip(w) == StripRight(StripLeft(w))

\* text.split(): the maximal runs of non-whitespace characters; cur is the
\* word being read
RECURSIVE SplitFrom(_, _)
SplitFrom(text, cur) ==
    IF text = <<>> THEN (IF cur = <<>> THEN <<>> ELSE <<cur>>)
    ELSE IF Head(text) \in Whitespace
         THEN (IF cur = <<>> THEN <<>> ELSE <<cur>>) \o SplitFrom(Tail(text), <<>>)
         ELSE SplitFrom(Tail(text), Append(cur, Head(text)))

Split(text) == SplitFrom(text, <<>>)

\* the filter of the list comprehension: w[0].isupper() and len(w) > 3
IsEntityWord(w) == w[1] \in UpperChars /\ Len(w) > 3

\* entities = [w.strip(".,") for w in words if w[0].isupper() and len(w) > 3]
Entities(text) ==
    LET kept == SelectSeq(Split(text), IsEntityWord)
    IN  [i \in 1..Len(kept) |-> Strip(kept[i])]

SeqToSet(s) == {s[i] : i \in 1..Len(s)}

\* cid = f"{space_id}_{final_source}_{i}"
IngestChunkId(space_id, final_source, i) ==
    space_id \o "_" \o final_source \o "_" \o ToString(i)

\* cid = f"{space_id}_url_{i}"
UrlChunkId(space_id, url, i) ==
    space_id \o "_url_" \o ToString(i)

\* The embedding provider is an external collaborator: any deterministic map
\* from text to a vector of fixed width.  The stand-in used here has width 2:
\* (words that start with an upper-case letter, other words).  It is never
\* the zero vector on a non-empty text.
_get_embedding(text) ==
    LET words == Split(text)
    IN  << Cardinality({i \in 1..Len(words) : words[i][1] \in UpperChars}),
           Cardinality({i \in 1..Len(words) : words[i][1] \notin UpperChars}) >>

-----------------------------------------------------------------------------
(* Store: the tables as a record st = [chunks, nodes, edges] *)

EmptyStore == [chunks |-> <<>>, nodes |-> <<>>, edges |-> <<>>]

\* chunks and edges are the lists of their rows in insertion order; nodes
\* maps each id (the primary key) to the rest of its row.  Edge rows carry
\* one field that is no column of the table: origin, the (space_id, source)
\* of the document whose ingestion wrote the row.  No operation reads it; the
\* properties below use it to say "derived from".
Origin(space_id, source) == [space_id |-> space_id, source |-> source]

\* a faulty variant: INSERT OR REPLACE, the last writer wins
add_node_Replace(st, node_id, label, props) ==
    [st EXCEPT !.nodes =
        [id \in DOMAIN @ \cup {node_id} |->
            IF id = node_id THEN [label |-> label, properties |-> props]
            ELSE @[id]]]

\* INSERT OR IGNORE INTO nodes VALUES (?, ?, ?): nodes.id is the primary key
add_node(st, node_id, label, props) ==
    IF node_id \in DOMAIN st.nodes
    THEN st
    ELSE [st EXCEPT !.nodes =
            @ @@ (node_id :> [label |-> label, properties |-> props])]

\* INSERT INTO edges VALUES (?, ?, ?, ?)
add_edge(st, source, target, label, props, origin) ==
    [st EXCEPT !.edges =
        Append(@, [source |-> source, target |-> target, label |-> label,
                   properties |-> props, origin |-> origin])]

\* for chunk in chunks: INSERT INTO chunks VALUES (?, ?, ?, ?, ?)
add_chunks(st, rows, space_id) ==
    [st EXCEPT !.chunks =
        @ \o [i \in 1..Len(rows) |->
                [id |-> rows[i].id, space_id |-> space_id,
                 content |-> rows[i].content,
                 embedding |-> rows[i].embedding,
                 metadata |-> rows[i].metadata]]]

EntityLabel  == <<"E", "n", "t", "i", "t", "y">>
RelatedLabel == <<"R", "E", "L", "A", "T", "E", "D">>

\* for entity in set(entities): self.store.add_node(...)
RECURSIVE AddNodes(_, _, _)
AddNodes(st, ents, chunk_id) ==
    IF ents = {} THEN st
    ELSE LET e == CHOOSE x \in ents : TRUE
         IN  AddNodes(add_node(st, e, EntityLabel, [source_chunk |-> chunk_id]),
                      ents \ {e}, chunk_id)

\* a faulty variant: a repeated entity is not connected to itself
RECURSIVE AddEdges_NoLoops(_, _, _, _, _)
AddEdges_NoLoops(st, entities, i, chunk_id, origin) ==
    IF i > Len(entities) - 1 THEN st
    ELSE AddEdges_NoLoops(
             IF entities[i] = entities[i + 1] THEN st
             ELSE add_edge(st, entities[i], entities[i + 1], RelatedLabel,
                           [source_chunk |-> chunk_id], origin),
             entities, i + 1, chunk_id, origin)

\* for i in range(len(entities) - 1): self.store.add_edge(...)
RECURSIVE AddEdges(_, _, _, _, _)
AddEdges(st, entities, i, chunk_id, origin) ==
    IF i > Len(entities) - 1 THEN st
    ELSE AddEdges(add_edge(st, entities[i], entities[i + 1], RelatedLabel,
                           [source_chunk |-> chunk_id], origin),
                  entities, i + 1, chunk_id, origin)

\* DocumentIngestor._extract_graph(text, chunk_id)
_extract_graph(st, text, chunk_id, origin) ==
    LET entities == Entities(text)
        withNodes == AddNodes(st, SeqToSet(entities), chunk_id)
    IN  AddEdges(withNodes, entities, 1, chunk_id, origin)

\* the loop "for i, chunk in enumerate(chunks)" of ingest from position i
\* (1-based here; the id carries the 0-based index i - 1), acc the rows
\* collected in data_to_insert
RECURSIVE IngestLoop(_, _, _, _, _, _)
IngestLoop(st, doc, i, space_id, final_source, acc) ==
    IF i > Len(doc) THEN [st |-> st, data_to_insert |-> acc]
    ELSE LET cid == IngestChunkId(space_id, final_source, i - 1)
             row == [id |-> cid, content |-> doc[i],
                     embedding |-> _get_embedding(doc[i]),
                     metadata |-> [source |-> final_source]]
         IN  IngestLoop(_extract_graph(st, doc[i], cid,
                                       Origin(space_id, final_source)),
                        doc, i + 1, space_id, final_source, Append(acc, row))

\* DocumentIngestor.ingest(file_path, space_id, source_name): doc is what the
\* splitter made of the file, final_source the source_name
ingest(st, doc, space_id, final_source) ==
    LET r == IngestLoop(st, doc, 1, space_id, final_source, <<>>)
    IN  add_chunks(r.st, r.data_to_insert, space_id)

\* the same loop in ingest_url
RECURSIVE IngestUrlLoop(_, _, _, _, _, _)
IngestUrlLoop(st, doc, i, space_id, url, acc) ==
    IF i > Len(doc) THEN [st |-> st, data_to_insert |-> acc]
    ELSE LET cid == UrlChunkId(space_id, url, i - 1)
             row == [id |-> cid, content |-> doc[i],
                     embedding |-> _get_embedding(doc[i]),
                     metadata |-> [source |-> url]]
         IN  IngestUrlLoop(_extract_graph(st, doc[i], cid,
                                          Origin(space_id, url)),
                           doc, i + 1, space_id, url, Append(acc, row))

\* DocumentIngestor.ingest_url(url, space_id)
ingest_url(st, doc, url, space_id) ==
    LET r == IngestUrlLoop(st, doc, 1, space_id, url, <<>>)
    IN  add_chunks(r.st, r.data_to_insert, space_id)

-----------------------------------------------------------------------------
(* Store: cascade deletion *)

\* json_extract_string(properties, '$.source_chunk') IN (ids)
TaggedIn(row, ids) == row.properties.source_chunk \in ids

\* id NOT IN (SELECT source FROM edges) AND id NOT IN (SELECT target FROM edges)
Unreferenced(node_id, edgeRows) ==
    \A i \in 1..Len(edgeRows) :
        edgeRows[i].source # node_id /\ edgeRows[i].target # node_id

\* a faulty variant: the edges are deleted and the nodes are left alone
Cascade_EdgesOnly(st, ids) ==
    [st EXCEPT !.edges = SelectSeq(@, LAMBDA e : ~TaggedIn(e, ids))]

\* DELETE FROM edges WHERE source_chunk IN (ids), then
\* DELETE FROM nodes WHERE source_chunk IN (ids) AND id not in any edge
Cascade(st, ids) ==
    LET keptEdges == SelectSeq(st.edges, LAMBDA e : ~TaggedIn(e, ids))
        keptIds   == { id \in DOMAIN st.nodes :
                         ~(TaggedIn(st.nodes[id], ids)
                           /\ Unreferenced(id, keptEdges)) }
    IN  [st EXCEPT !.edges = keptEdges,
                   !.nodes = [id \in keptIds |-> st.nodes[id]]]

\* WHERE space_id = ? AND json_extract_string(metadata, '$.source') = ?
InDocument(c, space_id, document_title) ==
    c.space_id = space_id /\ c.metadata.source = document_title

\* a faulty variant: the graph data goes and the chunk rows stay
delete_document_KeepsChunks(st, space_id, document_title) ==
    LET found     == SelectSeq(st.chunks,
                         LAMBDA c : InDocument(c, space_id, document_title))
        chunk_ids == SeqToSet([i \in 1..Len(found) |-> found[i].id])
    IN  [st  |-> IF chunk_ids # {} THEN Cascade(st, chunk_ids) ELSE st,
         ret |-> Len(found)]

\* DuckDBStore.delete_document(space_id, document_title): the store after the
\* call and the value returned
delete_document(st, space_id, document_title) ==
    LET found     == SelectSeq(st.chunks,
                         LAMBDA c : InDocument(c, space_id, document_title))
        chunk_ids == SeqToSet([i \in 1..Len(found) |-> found[i].id])
        noChunks  == [st EXCEPT !.chunks =
                         SelectSeq(@, LAMBDA c :
                             ~InDocument(c, space_id, document_title))]
    IN  [st  |-> IF chunk_ids # {} THEN Cascade(noChunks, chunk_ids)
                 ELSE noChunks,
         ret |-> Len(found)]

Min(a, b) == IF a < b THEN a ELSE b

\* the loop "for i in range(0, len(chunk_ids), batch_size)" of delete_space,
\* from 1-based position i of the list chunk_ids, with batch size bs
RECURSIVE DeleteSpaceBatches(_, _, _, _)
DeleteSpaceBatches(st, chunk_ids, i, bs) ==
    IF i > Len(chunk_ids) THEN st
    ELSE LET batch == SubSeq(chunk_ids, i, Min(i + bs - 1, Len(chunk_ids)))
         IN  DeleteSpaceBatches(Cascade(st, SeqToSet(batch)),
                                chunk_ids, i + bs, bs)

\* a faulty variant: the final DELETE FROM chunks has no WHERE clause
delete_space_with_NoWhere(st, space_id, bs) ==
    LET found     == SelectSeq(st.chunks, LAMBDA c : c.space_id = space_id)
        chunk_ids == [i \in 1..Len(found) |-> found[i].id]
        graphDone == DeleteSpaceBatches(st, chunk_ids, 1, bs)
    IN  IF chunk_ids = <<>> THEN [st |-> st, ret |-> 0]
        ELSE [st |-> [graphDone EXCEPT !.chunks = <<>>], ret |-> Len(found)]

\* DuckDBStore.delete_space(space_id) with its batch size as a parameter: the
\* store after the call and the value returned
delete_space_with(st, space_id, bs) ==
    LET found     == SelectSeq(st.chunks, LAMBDA c : c.space_id = space_id)
        chunk_ids == [i \in 1..Len(found) |-> found[i].id]
        graphDone == DeleteSpaceBatches(st, chunk_ids, 1, bs)
    IN  IF chunk_ids = <<>> THEN [st |-> st, ret |-> 0]
        ELSE [st  |-> [graphDone EXCEPT !.chunks =
                          SelectSeq(@, LAMBDA c : c.space_id # space_id)],
              ret |-> Len(found)]

\* DuckDBStore.delete_space(space_id)
delete_space(st, space_id) == delete_space_with(st, space_id, batch_size)

-----------------------------------------------------------------------------
(* Store: search *)

Dot(a, b)  == a[1] * b[1] + a[2] * b[2]
Norm2(a)   == Dot(a, a)

\* a faulty variant: the inner product, not divided by the norms
array_inner_product(embedding, query) ==
    [dot |-> Dot(embedding, query), n2 |-> 1]

\* array_cosine_similarity(embedding, query) = dot / sqrt(n2), kept exact as
\* the pair (dot, n2); both vectors are non-zero, so n2 > 0
array_cosine_similarity(embedding, query) ==
    [dot |-> Dot(embedding, query), n2 |-> Norm2(embedding) * Norm2(query)]

\* s > t for two such scores
ScoreGT(s, t) ==
    IF s.dot >= 0 /\ t.dot < 0 THEN TRUE
    ELSE IF s.dot < 0 /\ t.dot >= 0 THEN FALSE
    ELSE IF s.dot >= 0 THEN s.dot * s.dot * t.n2 > t.dot * t.dot * s.n2
    ELSE s.dot * s.dot * t.n2 < t.dot * t.dot * s.n2

\* threshold = 0.3
threshold == [dot |-> ThresholdNum, n2 |-> ThresholdDen * ThresholdDen]

\* "0.5 as score" of the keyword fallback
FallbackScore == [dot |-> 1, n2 |-> 4]

\* a faulty variant: "all" is taken for a document
IsSpecificDoc_AnyValue(target_doc) == target_doc # ""

\* if target_doc and target_doc != "all"
IsSpecificDoc(target_doc) == target_doc # "" /\ target_doc # "all"

\* a faulty variant: the document filter is never added to the query
InScope_NoDocFilter(c, space_id, target_doc) == c.space_id = space_id

\* WHERE space_id = ? [AND json_extract_string(metadata, '$.source') = ?]
InScope(c, space_id, target_doc) ==
    /\ c.space_id = space_id
    /\ IsSpecificDoc(target_doc) => c.metadata.source = target_doc

\* AND array_cosine_similarity(embedding, ?) > ?
Similar(c, query_embedding) ==
    ScoreGT(array_cosine_similarity(c.embedding, query_embedding), threshold)

\* a faulty variant: ORDER BY score ASC
OrderByScoreAsc(rows, I, query_embedding) ==
    LET score(i) == array_cosine_similarity(rows[i].embedding, query_embedding)
    IN  { p \in [1..Cardinality(I) -> I] :
            /\ \A j1, j2 \in 1..Cardinality(I) : j1 # j2 => p[j1] # p[j2]
            /\ \A j \in 1..Cardinality(I) - 1 :
                   ~ScoreGT(score(p[j]), score(p[j + 1])) }

\* ORDER BY score DESC: every order of the rows I of table rows in which the
\* score never increases (rows of equal score come in any order)
OrderByScoreDesc(rows, I, query_embedding) ==
    LET score(i) == array_cosine_similarity(rows[i].embedding, query_embedding)
    IN  { p \in [1..Cardinality(I) -> I] :
            /\ \A j1, j2 \in 1..Cardinality(I) : j1 # j2 => p[j1] # p[j2]
            /\ \A j \in 1..Cardinality(I) - 1 :
                   ~ScoreGT(score(p[j + 1]), score(p[j])) }

\* the similarity branch of search_vectors: the result lists the query can
\* return (SELECT content, metadata, score ... ORDER BY score DESC LIMIT k)
SimilaritySearch(st, query_embedding, space_id, k, target_doc) ==
    LET I == { i \in 1..Len(st.chunks) :
                 /\ InScope(st.chunks[i], space_id, target_doc)
                 /\ Similar(st.chunks[i], query_embedding) }
    IN  { [j \in 1..Min(k, Cardinality(I)) |->
             [content  |-> st.chunks[p[j]].content,
              metadata |-> st.chunks[p[j]].metadata,
              score    |-> array_cosine_similarity(st.chunks[p[j]].embedding,
                                                   query_embedding)]] :
          p \in OrderByScoreDesc(st.chunks, I, query_embedding) }

\* text_query.replace("'", "").replace("%", "")
CleanQuery(text_query) == SelectSeq(text_query, LAMBDA ch : ch \notin {"'", "%"})

Lower(ch) == IF ch = "A" THEN "a" ELSE IF ch = "B" THEN "b" ELSE ch

\* content ILIKE '%pattern%': the pattern occurs somewhere in content, letters
\* compared without case, "_" in the pattern standing for any one character
ILikeContains(content, pattern) ==
    \E pos \in 0..(Len(content) - Len(pattern)) :
        \A j \in 1..Len(pattern) :
            \/ pattern[j] = "_"
            \/ Lower(content[pos + j]) = Lower(pattern[j])

\* the keyword branch: SELECT content, metadata, 0.5 as score ... LIMIT ?
KeywordSearch(st, space_id, k, text_query, target_doc) ==
    LET hits == SelectSeq(st.chunks, LAMBDA c :
                    /\ InScope(c, space_id, target_doc)
                    /\ ILikeContains(c.content, CleanQuery(text_query)))
    IN  [j \in 1..Min(k, Len(hits)) |->
            [content |-> hits[j].content, metadata |-> hits[j].metadata,
             score |-> FallbackScore]]

\* DuckDBStore.search_vectors(query_embedding, space_id, k, text_query,
\* target_doc): the set of lists it can return.  ok says whether the
\* similarity query runs; when it raises, the except branch answers.
\* text_query = <<>> stands for None.
search_vectors(st, ok, query_embedding, space_id, k, text_query, target_doc) ==
    IF ok THEN SimilaritySearch(st, query_embedding, space_id, k, target_doc)
    ELSE IF text_query # <<>>
         THEN { KeywordSearch(st, space_id, k, text_query, target_doc) }
         ELSE { <<>> }

\* DuckDBStore.get_graph_context(node_ids): SELECT source, target, label FROM
\* edges WHERE source IN (node_ids) OR target IN (node_ids)
get_graph_context(st, node_ids) ==
    IF node_ids = {} THEN <<>>
    ELSE SelectSeq(st.edges,
                   LAMBDA e : e.source \in node_ids \/ e.target \in node_ids)

-----------------------------------------------------------------------------
(* Pipeline: retrieve *)

\* question.strip()
RECURSIVE LStrip(_)
LStrip(text) ==
    IF text # <<>> /\ Head(text) \in Whitespace THEN LStrip(Tail(text)) ELSE text

RECURSIVE RStrip(_)
RStrip(text) ==
    IF text # <<>> /\ text[Len(text)] \in Whitespace
    THEN RStrip(SubSeq(text, 1, Len(text) - 1))
    ELSE text

StripSpace(text) == RStrip(LStrip(text))

\* f"{src} is {label} to {tgt}"
EdgeSentence(e) ==
    e.source \o <<" ", "i", "s", " ">> \o e.label \o <<" ", "t", "o", " ">>
    \o e.target

\* entities_found after the loop over vector_results
RECURSIVE EntitiesFound(_)
EntitiesFound(rows) ==
    IF rows = <<>> THEN <<>>
    ELSE Entities(Head(rows).content) \o EntitiesFound(Tail(rows))

\* list(set(entities_found))[:5]: the order of a set's elements is arbitrary,
\* so any entity_cap of them (all of them when there are fewer)
CappedEntitySets(entities_found) ==
    LET all == SeqToSet(entities_found)
    IN  { S \in SUBSET all :
            Cardinality(S) = Min(entity_cap, Cardinality(all)) }

\* a faulty variant: every citation is kept
UniqueCitations_KeepAll(citations, seen_sources) == citations

\* the loop "for c in citations" that removes repeated sources
RECURSIVE UniqueCitations(_, _)
UniqueCitations(citations, seen_sources) ==
    IF citations = <<>> THEN <<>>
    ELSE LET c == Head(citations)
         IN  IF c.source # "" /\ c.source \notin seen_sources
             THEN <<c>> \o UniqueCitations(Tail(citations),
                                           seen_sources \cup {c.source})
             ELSE UniqueCitations(Tail(citations), seen_sources)

\* what retrieve returns for one list of vector_results and one choice of the
\* capped entity set
RetrieveFrom(st, vector_results, ents) ==
    LET graph_results == get_graph_context(st, ents)
    IN  [context   |-> [i \in 1..Len(vector_results) |-> vector_results[i].content]
                       \o [i \in 1..Len(graph_results) |->
                              EdgeSentence(graph_results[i])],
         citations |-> UniqueCitations(
                           [i \in 1..Len(vector_results) |->
                               vector_results[i].metadata], {}),
         calls     |-> <<"embed_query", "search_vectors">>
                       \o (IF EntitiesFound(vector_results) # <<>>
                           THEN <<"get_graph_context">> ELSE <<>>)]

\* a faulty variant: the question is not tested before the search
retrieve_Unguarded(st, ok, question, space_id, target_doc) ==
    LET query_vec == _get_embedding(StripSpace(question))
    IN  UNION { { RetrieveFrom(st, vr, ents) :
                    ents \in CappedEntitySets(EntitiesFound(vr)) } :
                vr \in search_vectors(st, ok, query_vec, space_id,
                                      retrieve_k, question, target_doc) }

\* GraphRAG.retrieve(state) with an embedding model configured: the set of
\* results {context, citations} it can return, each with the calls made to the
\* embedder and the store on the way
retrieve(st, ok, question, space_id, target_doc) ==
    IF question = <<>> \/ StripSpace(question) = <<>>
    THEN { [context |-> <<>>, citations |-> <<>>, calls |-> <<>>] }
    ELSE LET query_vec == _get_embedding(StripSpace(question))
         IN  UNION { { RetrieveFrom(st, vr, ents) :
                         ents \in CappedEntitySets(EntitiesFound(vr)) } :
                     vr \in search_vectors(st, ok, query_vec, space_id,
                                           retrieve_k, question, target_doc) }

-----------------------------------------------------------------------------
(* Pipeline: generate *)

\* len(context_str.strip()) < 50
limited_context_len == 50

\* unique_context[:5] of the context dump
dump_lines == 5

\* The literal texts of generate, each a sequence of its words
NoInfoSpecific ==
    <<"I", "couldn't", "find", "any", "relevant", "information", "in", "this",
      "specific", "document", "to", "answer", "your", "question.", "The",
      "document", "may", "not", "contain", "information", "related", "to",
      "your", "query.">>

NoInfoAll ==
    <<"I", "couldn't", "find", "any", "relevant", "information", "in", "the",
      "uploaded", "documents", "to", "answer", "your", "question.", "Please",
      "try", "rephrasing", "your", "question", "or", "upload", "more",
      "relevant", "documents.">>

NoteSpecific ==
    <<"\n\n", "**Note:**", "I", "found", "very", "limited", "information",
      "in", "this", "document", "related", "to", "your", "question.", "The",
      "answer", "above", "may", "be", "incomplete", "or", "not", "fully",
      "address", "your", "query.">>

NoteAll ==
    <<"\n\n", "**Note:**", "I", "found", "very", "limited", "information",
      "related", "to", "your", "question.", "The", "answer", "above", "may",
      "be", "incomplete.", "Consider", "rephrasing", "your", "question", "or",
      "uploading", "more", "relevant", "documents.">>

NoInfoDump ==
    <<"I", "couldn't", "find", "any", "relevant", "information", "in", "the",
      "documents.">>

DumpHeader == <<"**Context Found:**", "\n\n">>
DumpFooter ==
    <<"\n\n", "*(Note: No active LLM found. Showing retrieved context directly.)*">>

\* list(dict.fromkeys(context_list)): the first occurrence of every line
RECURSIVE Dedup(_)
Dedup(lines) ==
    IF lines = <<>> THEN <<>>
    ELSE <<Head(lines)>>
         \o Dedup(SelectSeq(Tail(lines), LAMBDA l : l # Head(lines)))

\* "\n".join(unique_context)
RECURSIVE JoinLines(_)
JoinLines(lines) ==
    IF lines = <<>> THEN <<>>
    ELSE IF Len(lines) = 1 THEN lines[1]
    ELSE lines[1] \o <<"\n">> \o JoinLines(Tail(lines))

\* context_str.strip(): blanks and newlines go from both ends
Blank == Whitespace \cup {"\n"}

RECURSIVE LTrim(_)
LTrim(text) ==
    IF text # <<>> /\ Head(text) \in Blank THEN LTrim(Tail(text)) ELSE text

RECURSIVE RTrim(_)
RTrim(text) ==
    IF text # <<>> /\ text[Len(text)] \in Blank
    THEN RTrim(SubSeq(text, 1, Len(text) - 1))
    ELSE text

Trim(text) == RTrim(LTrim(text))

\* "\n\n".join([f"- {line}" for line in unique_context[:5]])
RECURSIVE FormattedContext(_)
FormattedContext(lines) ==
    IF lines = <<>> THEN <<>>
    ELSE <<"- ">> \o lines[1]
         \o (IF Len(lines) > 1 THEN <<"\n\n">> ELSE <<>>)
         \o FormattedContext(Tail(lines))

\* the text the third tier yields
DumpAnswer(unique_context, context_str) ==
    IF context_str = <<>> THEN NoInfoDump
    ELSE DumpHeader
         \o FormattedContext(SubSeq(unique_context, 1,
                                    Min(dump_lines, Len(unique_context))))
         \o DumpFooter

\* What the generation backends do is theirs to decide.  For the remote tier:
\* the client library is missing, building the client raises, the stream
\* raises while it is consumed, or all goes well; for the local tier the same
\* and the case of no model file at the configured path.
RemoteStates == {"ok", "no_library", "raises", "stream_raises"}
LocalStates  == {"ok", "no_library", "no_model", "raises", "stream_raises"}
Envs == [api_key : BOOLEAN, remote : RemoteStates, local : LocalStates]

\* the fragments a backend streams when all goes well
RemoteStream == << <<"remote-1">>, <<"remote-2">> >>
LocalStream  == << <<"local-1">>, <<"local-2">> >>

\* An answer.  kind "str": a plain string, text.  kind "generator": a generator
\* object that has not run yet; pending are the fragments its body will
\* yield, and raises says that the body then raises instead of returning.
StrAnswer(text) ==
    [kind |-> "str", tier |-> "canned", text |-> text, pending |-> <<>>,
     raises |-> FALSE]

\* stream_with_note / local_generator: the backend's fragments, then the note
NotedStream(tier, stream, note, fails) ==
    [kind |-> "generator", tier |-> tier, text |-> <<>>,
     pending |-> IF fails THEN SubSeq(stream, 1, 1) ELSE stream \o note,
     raises |-> fails]

\* fallback_generator: one fragment, the answer
fallback_generator(answer) ==
    [kind |-> "generator", tier |-> "dump", text |-> <<>>,
     pending |-> <<answer>>, raises |-> FALSE]

\* a faulty variant: the local tier is tried before the remote one
generate_LocalFirst(context_list, question, target_doc, env) ==
    LET is_specific_doc     == IsSpecificDoc(target_doc)
        unique_context      == Dedup(context_list)
        context_str         == JoinLines(unique_context)
        has_limited_context == Len(Trim(context_str)) < limited_context_len
        warning_note == IF ~has_limited_context THEN <<>>
                        ELSE IF is_specific_doc THEN NoteSpecific ELSE NoteAll
        note         == IF warning_note # <<>> THEN <<warning_note>> ELSE <<>>
        remote       == IF env.api_key THEN <<"remote">> ELSE <<>>
    IN  IF context_list = <<>>
        THEN [answer   |-> StrAnswer(IF is_specific_doc THEN NoInfoSpecific
                                     ELSE NoInfoAll),
              attempts |-> <<>>]
        ELSE IF env.local \in {"ok", "stream_raises"}
        THEN [answer   |-> NotedStream("local", LocalStream, note,
                                       env.local = "stream_raises"),
              attempts |-> <<"local">>]
        ELSE IF env.api_key /\ env.remote \in {"ok", "stream_raises"}
        THEN [answer   |-> NotedStream("remote", RemoteStream, note,
                                       env.remote = "stream_raises"),
              attempts |-> <<"local", "remote">>]
        ELSE [answer   |-> fallback_generator(
                               DumpAnswer(unique_context, context_str)),
              attempts |-> <<"local">> \o remote \o <<"dump">>]

\* GraphRAG.generate(state) in environment env: the answer returned and the
\* tiers entered on the way, in order
generate(context_list, question, target_doc, env) ==
    LET is_specific_doc     == IsSpecificDoc(target_doc)
        unique_context      == Dedup(context_list)
        context_str         == JoinLines(unique_context)
        has_limited_context == Len(Trim(context_str)) < limited_context_len
        warning_note == IF ~has_limited_context THEN <<>>
                        ELSE IF is_specific_doc THEN NoteSpecific ELSE NoteAll
        note         == IF warning_note # <<>> THEN <<warning_note>> ELSE <<>>
        remote       == IF env.api_key THEN <<"remote">> ELSE <<>>
    IN  IF context_list = <<>>
        THEN [answer   |-> StrAnswer(IF is_specific_doc THEN NoInfoSpecific
                                     ELSE NoInfoAll),
              attempts |-> <<>>]
        ELSE IF env.api_key /\ env.remote \in {"ok", "stream_raises"}
        THEN [answer   |-> NotedStream("remote", RemoteStream, note,
                                       env.remote = "stream_raises"),
              attempts |-> remote]
        ELSE IF env.local \in {"ok", "stream_raises"}
        THEN [answer   |-> NotedStream("local", LocalStream, note,
                                       env.local = "stream_raises"),
              attempts |-> remote \o <<"local">>]
        ELSE [answer   |-> fallback_generator(
                               DumpAnswer(unique_context, context_str)),
              attempts |-> remote \o <<"local", "dump">>]

-----------------------------------------------------------------------------
(* Pipeline: run *)

NoAnswer ==
    [kind |-> "none", tier |-> "none", text |-> <<>>, pending |-> <<>>,
     raises |-> FALSE]

\* no call of run in progress
NoRun ==
    [stage |-> "idle", question |-> <<>>, space_id |-> "", target_doc |-> "",
     context |-> <<>>, citations |-> <<>>, calls |-> <<>>, attempts |-> <<>>,
     answer |-> NoAnswer, stages |-> <<>>, passes |-> 0, got |-> <<>>,
     open |-> FALSE, error |-> FALSE]

-----------------------------------------------------------------------------
(* Summarization: generate_summary *)

\* text[:4000] of the prompt and text[:500] of the fallback
prompt_chars  == 4000
summary_chars == 500

\* text[:n]
Prefix(text, n) == SubSeq(text, 1, Min(n, Len(text)))

Ellipsis == <<".", ".", ".">>

\* What the two backends do is theirs to decide.  Remote: the client library
\* is missing, the call raises, or it returns a text; local the same and the
\* case of no model file at the configured path.
SummaryRemoteStates == {"ok", "no_library", "raises"}
SummaryLocalStates  == {"ok", "no_library", "no_model", "raises"}
SummaryEnvs ==
    [api_key : BOOLEAN, remote : SummaryRemoteStates, local : SummaryLocalStates]

\* the texts the backends return, before .strip()
RemoteContent == <<" ", "r", "e", "m", "o", "t", "e", "\n">>
LocalContent  == <<"l", "o", "c", "a", "l", " ">>

\* a faulty variant: the prefix without the truncation marker
NaiveSummary_NoMarker(text) == Prefix(text, summary_chars)

\* return text[:500] + "..." if len(text) > 500 else text
NaiveSummary(text) ==
    IF Len(text) > summary_chars
    THEN Prefix(text, summary_chars) \o Ellipsis
    ELSE text

\* What a try block of generate_summary ends with: "returned" with a value,
\* "raised" (the except clause prints and goes on) or "passed" (the block
\* ended without a return)
RemoteTier(env) ==
    IF env.remote = "ok"
    THEN [end |-> "returned", value |-> Trim(RemoteContent)]
    ELSE [end |-> "raised", value |-> <<>>]

LocalTier(env) ==
    IF env.local \in {"no_library", "raises"}
    THEN [end |-> "raised", value |-> <<>>]
    ELSE IF env.local = "no_model"
    THEN [end |-> "passed", value |-> <<>>]
    ELSE [end |-> "returned", value |-> Trim(LocalContent)]

\* generate_summary(text) in environment env: the value returned, the tiers
\* entered on the way in order, and whether an exception left the function
generate_summary(text, env) ==
    LET cut    == IF Len(text) > prompt_chars
                  THEN Prefix(text, prompt_chars) \o Ellipsis
                  ELSE text
        remote == IF env.api_key THEN <<"remote">> ELSE <<>>
    IN  IF env.api_key /\ RemoteTier(env).end = "returned"
        THEN [value |-> RemoteTier(env).value, attempts |-> remote,
              raised |-> FALSE]
        ELSE IF LocalTier(env).end = "returned"
        THEN [value |-> LocalTier(env).value,
              attempts |-> remote \o <<"local">>, raised |-> FALSE]
        ELSE [value |-> NaiveSummary(cut),
              attempts |-> remote \o <<"local", "naive">>, raised |-> FALSE]

\* no call of generate_summary made
NoSummary ==
    [called |-> FALSE, text |-> <<>>,
     env |-> [api_key |-> FALSE, remote |-> "ok", local |-> "ok"],
     value |-> <<>>, attempts |-> <<>>, raised |-> FALSE]

-----------------------------------------------------------------------------
(* Web application: records *)

\* HTTP status of a response: render and StreamingHttpResponse answer 200,
\* redirect and redirect_to_login 302
status_ok          == 200
status_redirect    == 302
status_bad_request == 400
status_forbidden   == 403
status_not_found   == 404

\* The accounts.  ann is an Admin (superuser and staff), bob a Creator
\* (staff), cy a standard user; AnonymousUser is request.user of a request
\* that carries no login.
Users         == {"ann", "bob", "cy"}
AnonymousUser == "anonymous"
Requesters    == Users \cup {AnonymousUser}

is_authenticated(user) == user \in Users
is_superuser(user)     == user = "ann"
is_staff(user)         == user \in {"ann", "bob"}

\* ROLE_CHOICES
Roles == {"owner", "member"}

\* A KnowledgeSpace is a record [owner, is_public, permissions]; permissions
\* are the SpacePermission rows of the space, [user, role], in the order of
\* their primary keys.  site.spaces maps the id of every space to its record.

\* space.permissions.filter(user=user)
PermissionsOf(space, user) ==
    SelectSeq(space.permissions, LAMBDA perm : perm.user = user)

\* space.permissions.filter(user=user, role='owner').exists() and its like
HasRole(space, user, role) ==
    \E i \in 1..Len(space.permissions) :
        space.permissions[i].user = user /\ space.permissions[i].role = role

is_space_owner(user, space) ==
    IF ~is_authenticated(user) THEN FALSE
    ELSE space.owner = user \/ HasRole(space, user, "owner")

\* is_space_member without its last line: every login is a member
is_space_member_AnyLogin(user, space) ==
    is_authenticated(user)

is_space_member(user, space) ==
    IF ~is_authenticated(user) THEN FALSE
    ELSE IF is_space_owner(user, space) THEN TRUE
    ELSE PermissionsOf(space, user) # <<>>

\* what a view answers: the status, what the body is, and the message shown
Response(status, body, message) ==
    [status |-> status, body |-> body, message |-> message]

NoResponse == Response(0, "", "")

\* @login_required turns a request without login away
LoginRedirect == Response(status_redirect, "login", "")

Forbidden == Response(status_forbidden, "403.html", "")

\* the uuids the spaces get, in the order in which they are created.  No
\* request for one space reads or writes the records of another, and one
\* space is followed.
SpaceIds == <<"1">>

\* the uuid of the next space: one that no space has had
NextSpaceId(st) == SpaceIds[st.spaces_made + 1]

\* create_space, POST: the site after the request and the response.  The
\* names asked for are all different.
create_space(st, user, is_public) ==
    IF ~is_authenticated(user) THEN [site |-> st, response |-> LoginRedirect]
    ELSE IF ~(is_staff(user) \/ is_superuser(user))
    THEN [site |-> st, response |-> Forbidden]
    ELSE LET space == [owner |-> user, is_public |-> is_public,
                       permissions |-> <<[user |-> user, role |-> "owner"]>>]
         IN  [site |-> [st EXCEPT
                           !.spaces = @ @@ (NextSpaceId(st) :> space),
                           !.spaces_made = @ + 1],
              response |-> Response(status_redirect, "dashboard", "")]

\* the branch action == 'add' of manage_users: the space after it and the
\* message
ManageAdd(space, user, target_user, role) ==
    IF PermissionsOf(space, target_user) = <<>> /\ target_user # space.owner
    THEN LET current_user_role ==
                 IF space.owner = user THEN "owner"
                 ELSE IF PermissionsOf(space, user) # <<>>
                      THEN PermissionsOf(space, user)[1].role
                      ELSE "member"
         IN  IF current_user_role = "member" /\ role = "owner"
             THEN [space |-> space,
                   message |-> "You cannot assign a role higher than your own."]
             ELSE IF role = "owner"
                     /\ ~(is_staff(target_user) \/ is_superuser(target_user))
             THEN [space |-> space,
                   message |->
                       "Standard users cannot be assigned as Space Owners."]
             ELSE [space |-> [space EXCEPT !.permissions =
                                 Append(@, [user |-> target_user,
                                            role |-> role])],
                   message |-> "Added"]
    ELSE [space |-> space, message |-> "is already a member"]

\* a faulty variant: the owner is removed without looking for another owner
ManageRemove_Unchecked(space, target_user) ==
    [space |-> [space EXCEPT
                   !.owner = IF target_user = @ THEN "" ELSE @,
                   !.permissions =
                       SelectSeq(@, LAMBDA perm : perm.user # target_user)],
     message |-> "Removed"]

\* the branch action == 'remove'
ManageRemove(space, target_user) ==
    IF target_user = space.owner
    THEN LET other_owners ==
                 SelectSeq(space.permissions, LAMBDA perm :
                     perm.role = "owner" /\ perm.user # target_user)
         IN  IF other_owners # <<>>
             THEN [space |-> [space EXCEPT
                                 !.owner = other_owners[1].user,
                                 !.permissions = SelectSeq(@, LAMBDA perm :
                                     perm.user # target_user)],
                   message |-> "Transferred ownership"]
             ELSE [space |-> space,
                   message |->
                       "Cannot remove the only owner. Assign another owner first."]
    ELSE [space |-> [space EXCEPT !.permissions =
                        SelectSeq(@, LAMBDA perm : perm.user # target_user)],
          message |-> "Removed"]

\* the branch action == 'update_role'; space.permissions.get raises when the
\* user has no permission, and the except clause reports it
ManageUpdateRole(space, target_user, role) ==
    IF target_user = space.owner
    THEN [space |-> space, message |-> "Cannot change role of primary owner"]
    ELSE IF PermissionsOf(space, target_user) = <<>>
    THEN [space |-> space, message |-> "Error"]
    ELSE [space |-> [space EXCEPT !.permissions =
                        [i \in 1..Len(@) |->
                            IF @[i].user = target_user
                            THEN [@[i] EXCEPT !.role = role]
                            ELSE @[i]]],
          message |-> "Updated"]

\* manage_users, POST, for a space that exists: the site after the request
\* and the response
manage_users(st, user, space_id, action, username, role) ==
    LET space == st.spaces[space_id]
    IN  IF ~is_authenticated(user) THEN [site |-> st, response |-> LoginRedirect]
        ELSE IF ~is_space_owner(user, space)
        THEN [site |-> st, response |-> Forbidden]
        ELSE LET r == IF username \notin Users
                      THEN [space |-> space, message |-> "User not found"]
                      ELSE IF action = "add"
                      THEN ManageAdd(space, user, username, role)
                      ELSE IF action = "remove"
                      THEN ManageRemove(space, username)
                      ELSE IF action = "update_role"
                      THEN ManageUpdateRole(space, username, role)
                      ELSE [space |-> space, message |-> ""]
             IN  [site |-> [st EXCEPT !.spaces[space_id] = r.space],
                  response |-> Response(status_redirect, "manage_users",
                                        r.message)]

\* no request made
NoRequest == [view |-> "", user |-> ""]

\* the site before any request: no space, no document, no file
NoSite ==
    [spaces |-> <<>>, spaces_made |-> 0, documents |-> <<>>,
     documents_made |-> 0, files |-> {}, request |-> NoRequest,
     response |-> NoResponse]

-----------------------------------------------------------------------------
(* Web application: documents and the views that serve a space *)

\* A Document is a row [id, space_id, title, file, processed, source]: file
\* is the name of the upload under MEDIA_ROOT, "" for a document made from a
\* URL (file=None).  source is no column of the table: it is the source under
\* which the ingestion of the document wrote its chunks, and no view reads
\* it.  doc.summary is written and never read by the views below, and is left
\* out.  site.documents holds the rows in the order of their creation,
\* site.files the names of the files on disk under MEDIA_ROOT.

\* the uuids the documents get, in the order in which they are created; one
\* document is followed
DocIds == <<"7">>

NextDocId(st) == DocIds[st.documents_made + 1]

\* f.name of an upload, as rsplit('.', 1) parts it
FileNames == { [name |-> "a", ext |-> "txt"] }

FileName(f) == f.name \o "." \o f.ext

document_upload_path(space_id, filename) ==
    "documents/space_" \o space_id \o "/" \o filename

\* Storage.get_available_name: the name asked for unless a file has it, and
\* then one that no file has
AvailableName(st, file, id) ==
    IF file \in st.files THEN file \o "_" \o id ELSE file

TitleTaken(st, space_id, title) ==
    \E i \in 1..Len(st.documents) :
        st.documents[i].space_id = space_id /\ st.documents[i].title = title

\* the loop that versions the title of an upload: "a (1).txt", "a (2).txt"
RECURSIVE FileTitle(_, _, _, _)
FileTitle(st, space_id, f, counter) ==
    LET title == IF counter = 0 THEN FileName(f)
                 ELSE f.name \o " (" \o ToString(counter) \o ")." \o f.ext
    IN  IF TitleTaken(st, space_id, title)
        THEN FileTitle(st, space_id, f, counter + 1)
        ELSE title

\* the same loop of ingest_url_view: "u (1)", "u (2)"
RECURSIVE UrlTitle(_, _, _, _)
UrlTitle(st, space_id, url, counter) ==
    LET title == IF counter = 0 THEN url
                 ELSE url \o " (" \o ToString(counter) \o ")"
    IN  IF TitleTaken(st, space_id, title)
        THEN UrlTitle(st, space_id, url, counter + 1)
        ELSE title

NotFound == Response(status_not_found, "404", "")

\* upload_document, POST with one file f whose splits are doc: the site and
\* the store after the request, and the response.  The Document and its file
\* are created before the ingestion; an ingestion that raises (here: the
\* embedding of the first chunk does, ~provider_ok, before any row is
\* written) leaves them, unprocessed.
upload_document(st, store, user, space_id, f, doc, provider_ok) ==
    IF ~is_authenticated(user)
    THEN [site |-> st, store |-> store, response |-> LoginRedirect]
    ELSE IF space_id \notin DOMAIN st.spaces
    THEN [site |-> st, store |-> store, response |-> NotFound]
    ELSE IF ~is_space_owner(user, st.spaces[space_id])
    THEN [site |-> st, store |-> store, response |-> Forbidden]
    ELSE LET id   == NextDocId(st)
             file == AvailableName(st,
                         document_upload_path(space_id, FileName(f)), id)
             row  == [id |-> id, space_id |-> space_id,
                      title |-> FileTitle(st, space_id, f, 0),
                      file |-> file, processed |-> provider_ok, source |-> id]
         IN  [site |-> [st EXCEPT !.documents = Append(@, row),
                                  !.documents_made = @ + 1,
                                  !.files = @ \cup {file}],
              store |-> IF provider_ok THEN ingest(store, doc, space_id, id)
                        ELSE store,
              response |-> Response(status_redirect, "space_view",
                              IF provider_ok
                              THEN "Successfully uploaded and ingested"
                              ELSE "Error ingesting")]

\* ingest_url_view, POST with one url whose page splits into doc.  The page
\* is ingested under the url: ingest_url is not given the id of the Document.
ingest_url_view(st, store, user, space_id, url, doc, provider_ok) ==
    IF ~is_authenticated(user)
    THEN [site |-> st, store |-> store, response |-> LoginRedirect]
    ELSE IF space_id \notin DOMAIN st.spaces
    THEN [site |-> st, store |-> store, response |-> NotFound]
    ELSE IF ~is_space_owner(user, st.spaces[space_id])
    THEN [site |-> st, store |-> store,
          response |-> Response(status_forbidden, "Permission denied", "")]
    ELSE LET id  == NextDocId(st)
             row == [id |-> id, space_id |-> space_id,
                     title |-> UrlTitle(st, space_id, url, 0),
                     file |-> "", processed |-> provider_ok, source |-> url]
         IN  [site |-> [st EXCEPT !.documents = Append(@, row),
                                  !.documents_made = @ + 1],
              store |-> IF provider_ok
                        THEN ingest_url(store, doc, url, space_id)
                        ELSE store,
              response |-> Response(status_redirect, "space_view",
                              IF provider_ok THEN "Successfully fetched"
                              ELSE "Error fetching")]

\* Document.objects.filter(id=doc_id, space=space)
DocumentsWith(st, space_id, doc_id) ==
    SelectSeq(st.documents, LAMBDA d :
        d.id = doc_id /\ d.space_id = space_id)

\* the view delete_document: the store's delete_document under str(doc.id),
\* then the file, then the row
delete_document_view(st, store, user, space_id, doc_id) ==
    IF ~is_authenticated(user)
    THEN [site |-> st, store |-> store, response |-> LoginRedirect]
    ELSE IF space_id \notin DOMAIN st.spaces
    THEN [site |-> st, store |-> store, response |-> NotFound]
    ELSE IF ~is_space_owner(user, st.spaces[space_id])
    THEN [site |-> st, store |-> store, response |-> Forbidden]
    ELSE IF DocumentsWith(st, space_id, doc_id) = <<>>
    THEN [site |-> st, store |-> store, response |-> NotFound]
    ELSE LET doc == DocumentsWith(st, space_id, doc_id)[1]
         IN  [site |-> [st EXCEPT
                           !.documents = SelectSeq(@, LAMBDA d : d.id # doc.id),
                           !.files = @ \ {doc.file}],
              store |-> delete_document(store, space_id, doc.id).st,
              response |-> Response(status_redirect, "space_view",
                              "Successfully deleted")]

\* space_view
space_view(st, user, space_id) ==
    IF space_id \notin DOMAIN st.spaces THEN NotFound
    ELSE LET space == st.spaces[space_id]
         IN  IF ~space.is_public /\ ~is_authenticated(user) THEN LoginRedirect
             ELSE IF ~space.is_public /\ ~is_space_member(user, space)
             THEN Forbidden
             ELSE Response(status_ok, "space_view.html", "")

\* the messages posted to chat_api, texts; the last is a question
ChatMessages == { <<>>, <<" ">>, TextA }
Methods      == {"GET", "POST"}

\* chat_api.  The answer of the pipeline is streamed with status 200, and
\* "answer" stands for it.
chat_api(st, user, space_id, method, message) ==
    IF space_id \notin DOMAIN st.spaces THEN NotFound
    ELSE LET space == st.spaces[space_id]
         IN  IF ~space.is_public /\ ~is_space_member(user, space)
             THEN Response(status_forbidden, "Permission denied", "")
             ELSE IF method # "POST"
             THEN Response(status_bad_request, "Invalid request", "")
             ELSE IF StripSpace(message) = <<>>
             THEN Response(status_bad_request, "Message cannot be empty", "")
             ELSE Response(status_ok, "answer", "")

\* The path asked of serve_protected_media is a record [dir, filename]: dir
\* is what precedes the last '/', "" when the path has none.
MediaPath(path) ==
    IF path.dir = "" THEN path.filename
    ELSE path.dir \o "/" \o path.filename

\* Document.objects.filter(file=file)
DocumentsOfFile(st, file) ==
    SelectSeq(st.documents, LAMBDA d : d.file = file)

\* serve_protected_media
serve_protected_media(st, user, path) ==
    IF ("documents/" \o MediaPath(path)) \notin st.files THEN NotFound
    ELSE LET new  == DocumentsOfFile(st, "documents/" \o MediaPath(path))
             old  == IF new = <<>> /\ path.dir # ""
                     THEN DocumentsOfFile(st, "documents/" \o path.filename)
                     ELSE <<>>
             docs == new \o old
             file == Response(status_ok, "file", "")
         IN  IF docs # <<>>
             THEN LET space == st.spaces[docs[1].space_id]
                  IN  IF ~space.is_public /\ ~is_authenticated(user)
                      THEN LoginRedirect
                      ELSE IF ~space.is_public /\ ~is_space_member(user, space)
                      THEN Forbidden
                      ELSE file
             ELSE IF ~is_authenticated(user) THEN LoginRedirect
             ELSE IF ~is_superuser(user) THEN Forbidden
             ELSE file

-----------------------------------------------------------------------------
(* Store calls, statement by statement *)

\* A call of ingest or ingest_url in progress.  pc is the statement it is at:
\* "embed" (_get_embedding of chunk i), "nodes" (the add_node loop of chunk
\* i, ents the entities still to add), "edges" (add_edge number e of chunk
\* i), "insert" (the INSERT of row j in add_chunks), "done" (returned) or
\* "raised" (left by an exception).
NoIngest ==
    [pc |-> "idle", kind |-> "", space_id |-> "", source |-> "", doc |-> <<>>,
     i |-> 0, ents |-> {}, e |-> 0, data_to_insert |-> <<>>, j |-> 0]

\* A call of delete_document in progress.  pc is the statement it is at:
\* "select", "delete_chunks", "delete_edges", "delete_nodes" or "done".
NoDelete ==
    [pc |-> "idle", space_id |-> "", document_title |-> "", chunk_ids |-> <<>>]

NoCalls == [ingest |-> NoIngest, delete |-> NoDelete]

\* cid of chunk c.i in the call c
CallChunkId(c) ==
    IF c.kind = "file" THEN IngestChunkId(c.space_id, c.source, c.i - 1)
    ELSE UrlChunkId(c.space_id, c.source, c.i - 1)

\* The loops of the call c that have nothing left to do are left: the
\* add_node loop, then the add_edge loop, then the chunk loop, then add_chunks.
AfterInserts(c) ==
    IF c.pc = "insert" /\ c.j > Len(c.data_to_insert)
    THEN [c EXCEPT !.pc = "done"]
    ELSE c

AfterEdges(c) ==
    IF c.pc = "edges" /\ c.e > Len(Entities(c.doc[c.i])) - 1
    THEN IF c.i + 1 > Len(c.doc)
         THEN AfterInserts([c EXCEPT !.pc = "insert", !.j = 1])
         ELSE [c EXCEPT !.pc = "embed", !.i = c.i + 1]
    ELSE c

AfterNodes(c) ==
    IF c.pc = "nodes" /\ c.ents = {}
    THEN AfterEdges([c EXCEPT !.pc = "edges", !.e = 1])
    ELSE c

\* the REFERENCES nodes(id) constraints of the table edges
ForeignKeysHold(st, source, target) ==
    source \in DOMAIN st.nodes /\ target \in DOMAIN st.nodes

-----------------------------------------------------------------------------
(* The state machine: one action per call of the engine's interface *)

Store == [chunks |-> chunks, nodes |-> nodes, edges |-> edges]

\* the record kept of a call; the fields a call does not use keep these values
NoCall ==
    [op |-> "none", space_id |-> "", title |-> "", doc |-> <<>>, k |-> 0,
     query |-> <<>>, text_query |-> <<>>, ret |-> 0, rows |-> <<>>,
     context |-> <<>>, citations |-> <<>>]

Idle == last.op = "none" /\ pipeline.stage = "idle" /\ running = NoCalls

SetStore(st) ==
    /\ chunks' = st.chunks
    /\ nodes'  = st.nodes
    /\ edges'  = st.edges

\* DuckDBStore.__init__: empty tables; the vss extension loaded or not
Init ==
    /\ chunks = <<>>
    /\ nodes  = <<>>
    /\ edges  = <<>>
    /\ vss \in BOOLEAN
    /\ prev = EmptyStore
    /\ last = NoCall
    /\ pipeline = NoRun
    /\ summary = NoSummary
    /\ site = NoSite
    /\ running = NoCalls

Ingest ==
    /\ Idle
    /\ \E space_id \in Tenants, source \in FileSources, doc \in FileDocs :
           /\ Len(chunks) + Len(doc) <= MaxChunks
           /\ SetStore(ingest(Store, doc, space_id, source))
           /\ prev' = Store
           /\ last' = [NoCall EXCEPT !.op = "ingest", !.space_id = space_id,
                                     !.title = source, !.doc = doc]
           /\ UNCHANGED <<vss, pipeline, summary, site, running>>

IngestUrl ==
    /\ Idle
    /\ \E space_id \in Tenants, url \in Urls, doc \in UrlDocs :
           /\ Len(chunks) + Len(doc) <= MaxChunks
           /\ SetStore(ingest_url(Store, doc, url, space_id))
           /\ prev' = Store
           /\ last' = [NoCall EXCEPT !.op = "ingest_url", !.space_id = space_id,
                                     !.title = url, !.doc = doc]
           /\ UNCHANGED <<vss, pipeline, summary, site, running>>

DeleteDocument ==
    /\ Idle
    /\ \E space_id \in Tenants, title \in Titles :
           LET r == delete_document(Store, space_id, title)
           IN  /\ SetStore(r.st)
               /\ prev' = Store
               /\ last' = [NoCall EXCEPT !.op = "delete_document",
                                         !.space_id = space_id, !.title = title,
                                         !.ret = r.ret]
               /\ UNCHANGED <<vss, pipeline, summary, site, running>>

DeleteSpace ==
    /\ Idle
    /\ \E space_id \in Tenants :
           LET r == delete_space(Store, space_id)
           IN  /\ SetStore(r.st)
               /\ prev' = Store
               /\ last' = [NoCall EXCEPT !.op = "delete_space",
                                         !.space_id = space_id, !.ret = r.ret]
               /\ UNCHANGED <<vss, pipeline, summary, site, running>>

SearchVectors ==
    /\ Idle
    /\ \E space_id \in Tenants, k \in 1..MaxK, q \in Questions,
          target_doc \in TargetDocs :
           \E text_query \in (IF vss THEN {q} ELSE {q, <<>>}) :
               \E rows \in search_vectors(Store, vss, _get_embedding(q), space_id,
                                          k, text_query, target_doc) :
                   /\ prev' = Store
                   /\ last' = [NoCall EXCEPT !.op = "search_vectors",
                                             !.space_id = space_id, !.k = k,
                                             !.title = target_doc, !.query = q,
                                             !.text_query = text_query,
                                             !.rows = rows]
                   /\ UNCHANGED <<chunks, nodes, edges, vss, pipeline, summary, site, running>>

Retrieve ==
    /\ Idle
    /\ \E space_id \in Tenants, question \in Questions, target_doc \in TargetDocs :
           \E r \in retrieve(Store, vss, question, space_id, target_doc) :
               /\ prev' = Store
               /\ last' = [NoCall EXCEPT !.op = "retrieve", !.space_id = space_id,
                                         !.title = target_doc, !.query = question,
                                         !.context = r.context,
                                         !.citations = r.citations]
               /\ UNCHANGED <<chunks, nodes, edges, vss, pipeline, summary, site, running>>

\* the caller takes the result; the next call starts from the tables alone
Return ==
    /\ last.op # "none"
    /\ prev' = EmptyStore
    /\ last' = NoCall
    /\ UNCHANGED <<chunks, nodes, edges, vss, pipeline, summary, site, running>>

\* the calls that write the store
Next ==
    \/ Ingest
    \/ IngestUrl
    \/ DeleteDocument
    \/ DeleteSpace
    \/ Return

Spec == Init /\ [][Next]_vars

\* the same, and the calls that read it
QueryNext ==
    \/ Ingest
    \/ IngestUrl
    \/ DeleteDocument
    \/ DeleteSpace
    \/ SearchVectors
    \/ Retrieve
    \/ Return

QuerySpec == Init /\ [][QueryNext]_vars

-----------------------------------------------------------------------------
(* Vocabulary of the properties *)

\* the chunks of document (space_id, title) in st, and their ids
DocChunks(st, space_id, title) ==
    SelectSeq(st.chunks, LAMBDA c : InDocument(c, space_id, title))

DocChunkIds(st, space_id, title) ==
    { c.id : c \in SeqToSet(DocChunks(st, space_id, title)) }

\* the entity names a chunk's text yields
Mentions(c, entity) == entity \in SeqToSet(Entities(c.content))

\* an edge of st written while document (space_id, title) was ingested
DerivedFrom(e, space_id, title) == e.origin = Origin(space_id, title)

\* an edge that has the node as source or target
Touches(e, node_id) == e.source = node_id \/ e.target = node_id

Called(op) == last.op = op

-----------------------------------------------------------------------------
(* C1 *)

\* C1: delete_document(tenant, title) removes exactly the chunks of
\* (tenant, title), the edges derived from them and nodes that no remaining
\* edge references; every other chunk and every edge derived from another
\* document stays as it was; the count returned is the number of chunks
\* removed.
C1_DeleteDocumentExact ==
    Called("delete_document") =>
        /\ chunks = SelectSeq(prev.chunks, LAMBDA c :
                        ~InDocument(c, last.space_id, last.title))
        /\ last.ret = Len(prev.chunks) - Len(chunks)
        /\ edges = SelectSeq(prev.edges, LAMBDA e :
                        ~DerivedFrom(e, last.space_id, last.title))
        /\ \A id \in DOMAIN nodes : nodes[id] = prev.nodes[id]
        /\ \A id \in DOMAIN prev.nodes \ DOMAIN nodes : Unreferenced(id, edges)

-----------------------------------------------------------------------------
(* C2 *)

\* C2: after delete_document(tenant, title), a node whose source_chunk is a
\* chunk of the deleted document and that no chunk of any other document
\* mentions is no longer in the node set.
C2_SoleSourceNodeRemoved ==
    Called("delete_document") =>
        \A id \in DOMAIN prev.nodes :
            ( /\ prev.nodes[id].properties.source_chunk
                    \in DocChunkIds(prev, last.space_id, last.title)
              /\ \A c \in SeqToSet(prev.chunks) :
                    Mentions(c, id) => InDocument(c, last.space_id, last.title) )
            => id \notin DOMAIN nodes

\* a document with graph data was deleted and a node of its own went with it
C2_Witness ==
    /\ Called("delete_document")
    /\ last.ret > 0
    /\ \E id \in DOMAIN prev.nodes \ DOMAIN nodes :
          /\ prev.nodes[id].properties.source_chunk
                \in DocChunkIds(prev, last.space_id, last.title)
          /\ \A c \in SeqToSet(prev.chunks) :
                Mentions(c, id) => InDocument(c, last.space_id, last.title)
    /\ chunks # <<>>

-----------------------------------------------------------------------------
(* C3 *)

\* C3: when a chunk of the deleted document and a chunk of a different
\* document both mention an entity, and an edge derived from that other
\* document has the entity as source or target, delete_document leaves the
\* entity's node in the node set.
C3_SharedEntitySurvives ==
    Called("delete_document") =>
        \A id \in DOMAIN prev.nodes :
            ( /\ \E c \in SeqToSet(prev.chunks) :
                    InDocument(c, last.space_id, last.title) /\ Mentions(c, id)
              /\ \E c \in SeqToSet(prev.chunks) :
                    /\ ~InDocument(c, last.space_id, last.title)
                    /\ Mentions(c, id)
                    /\ \E e \in SeqToSet(prev.edges) :
                          /\ DerivedFrom(e, c.space_id, c.metadata.source)
                          /\ Touches(e, id) )
            => id \in DOMAIN nodes

-----------------------------------------------------------------------------
(* C4 *)

\* C4: delete_document twice in a row returns (N, 0) with N >= 0 and the
\* second call changes no table; deleting a document that has no chunk
\* returns 0 and changes no table.
C4_DeleteDocumentIdempotent ==
    Called("delete_document") =>
        LET again == delete_document(Store, last.space_id, last.title)
        IN  /\ last.ret >= 0
            /\ again.ret = 0
            /\ again.st = Store
            /\ DocChunks(prev, last.space_id, last.title) = <<>>
                   => last.ret = 0 /\ Store = prev

\* a document that had chunks and graph data was deleted
C4_Witness ==
    /\ Called("delete_document")
    /\ last.ret > 0
    /\ prev.edges # edges

-----------------------------------------------------------------------------
(* C5 *)

\* C5: delete_space(tenant) returns the number of chunks the tenant had, 0
\* with no table changed when it had none, leaves no chunk of the tenant and
\* leaves the chunks of every other tenant as they were.
C5_DeleteSpaceChunks ==
    Called("delete_space") =>
        /\ last.ret = Len(SelectSeq(prev.chunks,
                          LAMBDA c : c.space_id = last.space_id))
        /\ last.ret = 0 => Store = prev
        /\ \A c \in SeqToSet(chunks) : c.space_id # last.space_id
        /\ chunks = SelectSeq(prev.chunks, LAMBDA c : c.space_id # last.space_id)

\* a tenant with chunks was deleted while another tenant had chunks too
C5_Witness ==
    /\ Called("delete_space")
    /\ last.ret > 0
    /\ chunks # <<>>

-----------------------------------------------------------------------------
(* C6 *)

\* the chunk ids ingestion builds for a tenant
TenantChunkIds(space_id) ==
    { IngestChunkId(space_id, src, i) :
        src \in FileSources, i \in 0..MaxChunks }
    \cup { UrlChunkId(space_id, url, i) : url \in Urls, i \in 0..MaxChunks }

\* C6: after delete_space(tenant) no edge derived from a chunk of the tenant
\* remains, no node created from a chunk of the tenant remains unless an edge
\* of another tenant's chunk references it, and nodes and edges are the same
\* whatever the batch size.
C6_DeleteSpaceCascade ==
    Called("delete_space") =>
        /\ \A e \in SeqToSet(edges) : e.origin.space_id # last.space_id
        /\ \A id \in DOMAIN nodes :
              nodes[id].properties.source_chunk \in TenantChunkIds(last.space_id)
              => \E e \in SeqToSet(edges) :
                    Touches(e, id) /\ e.origin.space_id # last.space_id
        /\ \A bs \in 1..Len(prev.chunks) :
              LET r == delete_space_with(prev, last.space_id, bs)
              IN  r.st.nodes = nodes /\ r.st.edges = edges

-----------------------------------------------------------------------------
(* C7 *)

\* C7: two chunks stored under the same tenant for different sources never
\* have the same id.
C7_ChunkIdsUnique ==
    \A i, j \in 1..Len(chunks) :
        ( /\ chunks[i].space_id = chunks[j].space_id
          /\ chunks[i].metadata.source # chunks[j].metadata.source )
        => chunks[i].id # chunks[j].id

-----------------------------------------------------------------------------
(* C8 *)

\* what the store holds of one tenant: its chunks and the edges derived from
\* them
TenantView(st, space_id) ==
    [st EXCEPT !.chunks = SelectSeq(@, LAMBDA c : c.space_id = space_id),
               !.edges  = SelectSeq(@, LAMBDA e : e.origin.space_id = space_id)]

\* C8: a retrieval for one tenant returns only context lines that are the
\* text of a chunk of that tenant or the sentence of an edge derived from a
\* chunk of that tenant, and returns what it would return if the store held
\* that tenant's data alone.
C8_TenantIsolation ==
    Called("retrieve") =>
        /\ \A line \in SeqToSet(last.context) :
              \/ \E c \in SeqToSet(chunks) :
                    c.space_id = last.space_id /\ c.content = line
              \/ \E e \in SeqToSet(edges) :
                    e.origin.space_id = last.space_id /\ EdgeSentence(e) = line
        /\ \E r \in retrieve(TenantView(Store, last.space_id), vss, last.query,
                             last.space_id, last.title) :
              r.context = last.context /\ r.citations = last.citations

-----------------------------------------------------------------------------
(* C9 *)

\* a result row is the (content, metadata) of chunk c
RowOf(row, c) == row.content = c.content /\ row.metadata = c.metadata

\* the match condition of the path search_vectors took in the last call
Matched(c) ==
    IF vss THEN Similar(c, _get_embedding(last.query))
    ELSE ILikeContains(c.content, CleanQuery(last.text_query))

\* C9: on the similarity path and on the keyword fallback, every row
\* search_vectors returns is a chunk of the tenant asked for; with a specific
\* target_doc every row's source is that document; with target_doc "all" or
\* omitted no chunk of the tenant is kept out because of its source.
C9_SearchScoped ==
    Called("search_vectors") =>
        /\ \A i \in 1..Len(last.rows) :
              \E c \in SeqToSet(chunks) :
                  c.space_id = last.space_id /\ RowOf(last.rows[i], c)
        /\ IsSpecificDoc(last.title) =>
              \A i \in 1..Len(last.rows) :
                  last.rows[i].metadata.source = last.title
        /\ ( /\ ~IsSpecificDoc(last.title)
             /\ Len(last.rows) < last.k
             /\ vss \/ last.text_query # <<>> )
           => \A c \in SeqToSet(chunks) :
                 (c.space_id = last.space_id /\ Matched(c))
                 => \E i \in 1..Len(last.rows) : RowOf(last.rows[i], c)

\* the keyword fallback answered for one document while another document of
\* the same tenant held a matching chunk
C9_Witness ==
    /\ Called("search_vectors")
    /\ ~vss
    /\ IsSpecificDoc(last.title)
    /\ last.rows # <<>>
    /\ \E c \in SeqToSet(chunks) :
          /\ c.space_id = last.space_id
          /\ c.metadata.source # last.title
          /\ Matched(c)

-----------------------------------------------------------------------------
(* C10 *)

\* the chunks in the scope of the last search_vectors call whose score is
\* above the threshold
Eligible ==
    SelectSeq(chunks, LAMBDA c :
        /\ InScope(c, last.space_id, last.title)
        /\ ScoreGT(array_cosine_similarity(c.embedding,
                                           _get_embedding(last.query)),
                   threshold))

\* the eligible chunks that score strictly more than s
Better(s) ==
    SelectSeq(Eligible, LAMBDA c :
        ScoreGT(array_cosine_similarity(c.embedding,
                                        _get_embedding(last.query)), s))

\* C10: on the similarity path search_vectors returns the top k of the
\* in-scope chunks above the threshold: at most k rows, each an in-scope
\* chunk with its own score, each score strictly above the threshold, in
\* order of non-increasing score, and no in-scope chunk left out scores
\* strictly more than a returned row.
C10_SimilarityTopK ==
    (Called("search_vectors") /\ vss) =>
        /\ Len(last.rows) = Min(last.k, Len(Eligible))
        /\ \A i \in 1..Len(last.rows) :
              /\ ScoreGT(last.rows[i].score, threshold)
              /\ \E c \in SeqToSet(Eligible) :
                    /\ RowOf(last.rows[i], c)
                    /\ last.rows[i].score =
                          array_cosine_similarity(c.embedding,
                                                  _get_embedding(last.query))
              /\ Len(Better(last.rows[i].score)) <= i - 1
        /\ \A i \in 1..Len(last.rows) - 1 :
              ~ScoreGT(last.rows[i + 1].score, last.rows[i].score)

\* the similarity path cut the result at k and left out an eligible chunk of
\* lower score
C10_Witness ==
    /\ Called("search_vectors")
    /\ vss
    /\ Len(last.rows) = last.k
    /\ Len(Eligible) > last.k
    /\ Better(last.rows[1].score) = <<>>
    /\ \E c \in SeqToSet(Eligible) :
          ScoreGT(last.rows[1].score,
                  array_cosine_similarity(c.embedding,
                                          _get_embedding(last.query)))

-----------------------------------------------------------------------------
(* C11 *)

\* the score 1.0, the largest a cosine similarity takes
IsOne(s) == s.dot > 0 /\ s.dot * s.dot = s.n2

\* the chunks of the tenant of the last search_vectors call, in its document
\* scope, whose own embedding was the query
SelfChunks ==
    SelectSeq(chunks, LAMBDA c :
        /\ InScope(c, last.space_id, last.title)
        /\ c.embedding = _get_embedding(last.query))

\* C11 as stated, on the similarity path: search_vectors with a stored
\* chunk's own embedding as the query returns that chunk among the rows, with
\* the maximal score 1.0, whatever other chunks the tenant holds.
C11_SelfSimilarityAlways ==
    (Called("search_vectors") /\ vss) =>
        \A c \in SeqToSet(SelfChunks) :
            \E i \in 1..Len(last.rows) :
                RowOf(last.rows[i], c) /\ IsOne(last.rows[i].score)

\* C11 amended: when the similarity operator is available, search_vectors
\* with a stored chunk's own embedding as the query returns a first row of
\* score 1.0, and returns that chunk with score 1.0 unless all k rows
\* returned have score 1.0.
C11_SelfSimilarity ==
    (Called("search_vectors") /\ vss) =>
        \A c \in SeqToSet(SelfChunks) :
            /\ last.rows # <<>>
            /\ IsOne(last.rows[1].score)
            /\ \/ \E i \in 1..Len(last.rows) :
                     RowOf(last.rows[i], c) /\ IsOne(last.rows[i].score)
               \/ /\ Len(last.rows) = last.k
                  /\ \A i \in 1..Len(last.rows) : IsOne(last.rows[i].score)

\* a chunk was found by its own embedding ahead of a chunk of lower score
C11_Witness ==
    /\ Called("search_vectors")
    /\ vss
    /\ \E c \in SeqToSet(SelfChunks) : RowOf(last.rows[1], c)
    /\ Len(last.rows) = 2
    /\ ~IsOne(last.rows[2].score)

-----------------------------------------------------------------------------
(* The keyword fallback of search_vectors, called with text queries that hold
   the characters its sanitising and its pattern treat specially *)

TextUnderscore == <<"c", "_", "t", "s">>
TextQuoted     == <<"a", "c", "'", "m", "%", "e">>

\* text_query values; <<>> stands for None
TextQueries == {<<>>, TextA, TextUnderscore, TextQuoted}

\* DuckDBStore.search_vectors when the similarity query raises: the except
\* branch answers and does not read query_embedding
SearchVectorsFallback ==
    /\ Idle
    /\ ~vss
    /\ \E space_id \in Tenants, k \in 1..MaxK, q \in Questions,
          text_query \in TextQueries, target_doc \in TargetDocs :
           \E rows \in search_vectors(Store, vss, _get_embedding(q), space_id,
                                      k, text_query, target_doc) :
               /\ prev' = Store
               /\ last' = [NoCall EXCEPT !.op = "search_vectors",
                                         !.space_id = space_id, !.k = k,
                                         !.title = target_doc,
                                         !.text_query = text_query,
                                         !.rows = rows]
               /\ UNCHANGED <<chunks, nodes, edges, vss, pipeline, summary, site, running>>

FallbackNext ==
    \/ Ingest
    \/ IngestUrl
    \/ DeleteDocument
    \/ DeleteSpace
    \/ SearchVectorsFallback
    \/ Return

FallbackSpec == Init /\ [][FallbackNext]_vars

-----------------------------------------------------------------------------
(* C12 *)

\* pattern occurs in content as a substring, letters compared without case
ContainsNoCase(content, pattern) ==
    \E pos \in 0..(Len(content) - Len(pattern)) :
        \A j \in 1..Len(pattern) :
            Lower(content[pos + j]) = Lower(pattern[j])

\* C12: when the similarity operator is unavailable, search_vectors returns
\* at most k rows, each a chunk of the tenant and document scope asked for
\* whose content contains the sanitised text_query as a substring without
\* regard to case, each with score 0.5; with no text_query it returns nothing.
C12_KeywordFallback ==
    (Called("search_vectors") /\ ~vss) =>
        /\ Len(last.rows) <= last.k
        /\ \A i \in 1..Len(last.rows) :
              /\ \E c \in SeqToSet(chunks) :
                    /\ InScope(c, last.space_id, last.title)
                    /\ RowOf(last.rows[i], c)
              /\ ContainsNoCase(last.rows[i].content,
                                CleanQuery(last.text_query))
              /\ last.rows[i].score = FallbackScore
        /\ last.text_query = <<>> => last.rows = <<>>

-----------------------------------------------------------------------------
(* The retrieval-generation pipeline: GraphRAG.run and the consumer of the
   answer it returns *)

\* a file whose one chunk is longer than limited_context_len
TextLong == Join(<<cats, Bob, Beta, Acme, cats, Bob, Beta, Acme,
                   cats, Bob, Beta, Acme>>)
LongDocs == { <<TextLong>> }

\* questions put to run: those of Questions, the empty one and a blank one
BlankQuestions == { <<>>, <<" ">> }
RunQuestions   == Questions \cup BlankQuestions

\* DocumentIngestor.ingest of a long file
IngestLong ==
    /\ Idle
    /\ \E space_id \in Tenants, source \in FileSources, doc \in LongDocs :
           /\ Len(chunks) + Len(doc) <= MaxChunks
           /\ SetStore(ingest(Store, doc, space_id, source))
           /\ prev' = Store
           /\ last' = [NoCall EXCEPT !.op = "ingest", !.space_id = space_id,
                                     !.title = source, !.doc = doc]
           /\ UNCHANGED <<vss, pipeline, summary, site, running>>

\* run(question, space_id, target_doc): workflow.invoke(inputs) enters the
\* graph at its entry point, retrieve
RunStart ==
    /\ Idle
    /\ \E question \in RunQuestions, space_id \in Tenants,
          target_doc \in TargetDocs :
           pipeline' = [NoRun EXCEPT !.stage = "retrieve",
                                     !.question = question,
                                     !.space_id = space_id,
                                     !.target_doc = target_doc,
                                     !.stages = <<"retrieve">>]
    /\ UNCHANGED <<chunks, nodes, edges, vss, prev, last, summary, site, running>>

\* a faulty variant: the workflow ends after retrieve
RunRetrieve_ThenEnd ==
    /\ pipeline.stage = "retrieve"
    /\ \E r \in retrieve(Store, vss, pipeline.question, pipeline.space_id,
                         pipeline.target_doc) :
           pipeline' = [pipeline EXCEPT !.context = r.context,
                                        !.citations = r.citations,
                                        !.calls = r.calls,
                                        !.stage = "done",
                                        !.stages = Append(@, "done")]
    /\ UNCHANGED <<chunks, nodes, edges, vss, prev, last, summary, site, running>>

\* node "retrieve", then the edge retrieve -> generate
RunRetrieve ==
    /\ pipeline.stage = "retrieve"
    /\ \E r \in retrieve(Store, vss, pipeline.question, pipeline.space_id,
                         pipeline.target_doc) :
           pipeline' = [pipeline EXCEPT !.context = r.context,
                                        !.citations = r.citations,
                                        !.calls = r.calls,
                                        !.stage = "generate",
                                        !.stages = Append(@, "generate")]
    /\ UNCHANGED <<chunks, nodes, edges, vss, prev, last, summary, site, running>>

\* node "generate", then the edge generate -> END: run returns the state
RunGenerate ==
    /\ pipeline.stage = "generate"
    /\ \E env \in Envs :
           LET g == generate(pipeline.context, pipeline.question,
                             pipeline.target_doc, env)
           IN  pipeline' = [pipeline EXCEPT !.answer = g.answer,
                                            !.attempts = g.attempts,
                                            !.stage = "done",
                                            !.stages = Append(@, "done")]
    /\ UNCHANGED <<chunks, nodes, edges, vss, prev, last, summary, site, running>>

\* the consumer begins "for fragment in answer".  iter() of a generator is the
\* generator itself, in the state it is in; iter() of a str is a new iterator
\* at the start of the string (the characters it yields are kept together as
\* one fragment)
Iterate ==
    /\ pipeline.stage = "done"
    /\ ~pipeline.open
    /\ ~pipeline.error
    /\ pipeline.passes < MaxPasses
    /\ pipeline' = [pipeline EXCEPT
                       !.passes = @ + 1,
                       !.got = <<>>,
                       !.open = TRUE,
                       !.answer.pending =
                           IF pipeline.answer.kind = "str"
                           THEN <<pipeline.answer.text>> ELSE @]
    /\ UNCHANGED <<chunks, nodes, edges, vss, prev, last, summary, site, running>>

\* next(): a fragment, or the exception the generator's body raises, or the
\* end of the iteration
Pull ==
    /\ pipeline.open
    /\ pipeline' =
          IF pipeline.answer.pending # <<>>
          THEN [pipeline EXCEPT !.got = Append(@, Head(pipeline.answer.pending)),
                                !.answer.pending = Tail(@)]
          ELSE IF pipeline.answer.raises
          THEN [pipeline EXCEPT !.error = TRUE, !.open = FALSE,
                                !.answer.raises = FALSE]
          ELSE [pipeline EXCEPT !.open = FALSE]
    /\ UNCHANGED <<chunks, nodes, edges, vss, prev, last, summary, site, running>>

\* the caller drops the result
RunForget ==
    /\ pipeline.stage = "done"
    /\ ~pipeline.open
    /\ pipeline' = NoRun
    /\ UNCHANGED <<chunks, nodes, edges, vss, prev, last, summary, site, running>>

RunNext ==
    \/ Ingest
    \/ IngestLong
    \/ Return
    \/ RunStart
    \/ RunRetrieve
    \/ RunGenerate
    \/ Iterate
    \/ Pull
    \/ RunForget

RunSpec == Init /\ [][RunNext]_vars

\* the node of a stage can run: retrieve and generate return a result
\* whatever the store and the backends do
NodeReturns ==
    /\ pipeline.stage = "retrieve" =>
          retrieve(Store, vss, pipeline.question, pipeline.space_id,
                   pipeline.target_doc) # {}
    /\ pipeline.stage = "generate" =>
          \A env \in Envs :
              generate(pipeline.context, pipeline.question,
                       pipeline.target_doc, env).answer.kind
                  \in {"str", "generator"}

\* The compiled workflow runs the node of the stage it is in.  RunRetrieve is
\* enabled exactly in stage retrieve and leaves it, RunGenerate likewise, so
\* weak fairness of the two actions is the condition that the run is again
\* and again outside each of the two stages; it is stated in that form.
RunFairSpec ==
    /\ RunSpec
    /\ []<>(pipeline.stage # "retrieve")
    /\ []<>(pipeline.stage # "generate")

-----------------------------------------------------------------------------
(* C13 *)

\* the retrieve stage of the run in progress has returned
Retrieved == pipeline.stage \in {"generate", "done"}

\* C13: for an empty or blank question retrieve returns empty context and
\* empty citations and has called neither the embedder nor the store.
C13_BlankQuestion ==
    (Retrieved /\ pipeline.question \in BlankQuestions) =>
        /\ pipeline.context = <<>>
        /\ pipeline.citations = <<>>
        /\ pipeline.calls = <<>>

\* retrieve returned for a blank question while the tenant held a chunk that
\* the keyword search finds for it
C13_Witness ==
    /\ pipeline.stage = "generate"
    /\ pipeline.question = <<" ">>
    /\ ~vss
    /\ \E c \in SeqToSet(chunks) :
          /\ c.space_id = pipeline.space_id
          /\ ILikeContains(c.content, pipeline.question)

-----------------------------------------------------------------------------
(* C14 *)

\* the position of the first row of vector_results whose source is source
FirstWith(vector_results, source) ==
    CHOOSE i \in 1..Len(vector_results) :
        /\ vector_results[i].metadata.source = source
        /\ \A j \in 1..(i - 1) : vector_results[j].metadata.source # source

\* citations is the list of the metadata of vector_results with one entry for
\* every source, in the order in which the sources first appear
CitesOnce(citations, vector_results) ==
    /\ \A i, j \in 1..Len(citations) :
          i # j => citations[i].source # citations[j].source
    /\ \A i \in 1..Len(citations) : citations[i].source # ""
    /\ { citations[i].source : i \in 1..Len(citations) }
          = { vector_results[i].metadata.source : i \in 1..Len(vector_results) }
    /\ \A i, j \in 1..Len(citations) :
          i < j => FirstWith(vector_results, citations[i].source)
                     < FirstWith(vector_results, citations[j].source)

\* the lists of chunks the last retrieve call can have got from the store
\* that begin its context
RetrievedChunks ==
    { vr \in search_vectors(Store, vss, _get_embedding(StripSpace(last.query)),
                            last.space_id, retrieve_k, last.query, last.title) :
        /\ Len(vr) <= Len(last.context)
        /\ \A i \in 1..Len(vr) : vr[i].content = last.context[i] }

\* C14: the citations retrieve returns hold no two entries with the same
\* source, every entry has a source, every source of a retrieved chunk is
\* there, and the entries come in the order in which their sources first
\* appear among the retrieved chunks.
C14_CitationsUnique ==
    Called("retrieve") =>
        \E vr \in RetrievedChunks : CitesOnce(last.citations, vr)

\* two chunks of one document were retrieved and cited once
C14_Witness ==
    /\ Called("retrieve")
    /\ Len(last.citations) = 1
    /\ \E vr \in RetrievedChunks :
          /\ Len(vr) = 2
          /\ vr[1].metadata.source = vr[2].metadata.source

-----------------------------------------------------------------------------
(* C15 *)

\* C15: whatever fails in the remote or the local tier, while the tier is set
\* up or while its output is produced and consumed, no exception reaches the
\* caller of run or the consumer of the answer.
C15_NoExceptionEscapes == ~pipeline.error

-----------------------------------------------------------------------------
(* C16 *)

\* the place of a tier in the order of the fallback
Rank(tier) == IF tier = "remote" THEN 1 ELSE IF tier = "local" THEN 2 ELSE 3

\* C16: with non-empty context generate enters the tiers in the order remote,
\* local, dump, none twice; the answer comes from the last tier entered, so
\* the local tier is entered only when the remote tier gave no answer and the
\* dump only when neither did; with empty context no tier is entered.
C16_TierOrder ==
    pipeline.stage = "done" =>
        LET a == pipeline.attempts
        IN  IF pipeline.context = <<>>
            THEN a = <<>> /\ pipeline.answer.tier = "canned"
            ELSE /\ a # <<>>
                 /\ \A i \in 1..Len(a) : a[i] \in {"remote", "local", "dump"}
                 /\ \A i, j \in 1..Len(a) : i < j => Rank(a[i]) < Rank(a[j])
                 /\ pipeline.answer.tier = a[Len(a)]
                 /\ a[Len(a)] = "dump" => Len(a) >= 2 /\ a[Len(a) - 1] = "local"

\* the remote tier and the local tier were entered and the dump answered
C16_Witness ==
    /\ pipeline.stage = "done"
    /\ pipeline.attempts = <<"remote", "local", "dump">>
    /\ pipeline.answer.tier = "dump"

-----------------------------------------------------------------------------
(* C17 *)

\* C17: with empty context generate enters no tier and returns the canned text
\* for one document iff target_doc is set and is not "all", otherwise the one
\* for all documents; the two texts differ and both begin "I couldn't find".
C17_EmptyContextMessage ==
    (pipeline.stage = "done" /\ pipeline.context = <<>>) =>
        /\ pipeline.attempts = <<>>
        /\ pipeline.answer.text \in {NoInfoSpecific, NoInfoAll}
        /\ pipeline.answer.text = NoInfoSpecific
              <=> pipeline.target_doc \notin {"", "all"}
        /\ NoInfoSpecific # NoInfoAll
        /\ SubSeq(pipeline.answer.text, 1, 3) = <<"I", "couldn't", "find">>

\* a question about all documents found nothing in a tenant that has chunks
C17_Witness ==
    /\ pipeline.stage = "done"
    /\ pipeline.context = <<>>
    /\ pipeline.target_doc = "all"
    /\ pipeline.question \notin BlankQuestions
    /\ \E c \in SeqToSet(chunks) : c.space_id = pipeline.space_id

-----------------------------------------------------------------------------
(* C18 *)

\* the consumer has iterated once over the answer, to its end
ConsumedOnce ==
    /\ pipeline.stage = "done"
    /\ pipeline.passes = 1
    /\ ~pipeline.open
    /\ ~pipeline.error

\* C18: when the context is not empty and its text (lines without repeats,
\* joined, trimmed) is shorter than 50 characters, the last fragment of the
\* answer is the warning note, in the wording for one document iff
\* target_doc is set and is not "all", whichever tier answers; when the text
\* has 50 characters or more no fragment is a note.
C18_WarningNote ==
    (ConsumedOnce /\ pipeline.context # <<>>) =>
        IF Len(Trim(JoinLines(Dedup(pipeline.context)))) < limited_context_len
        THEN /\ pipeline.got # <<>>
             /\ pipeline.got[Len(pipeline.got)] =
                   IF pipeline.target_doc \notin {"", "all"}
                   THEN NoteSpecific ELSE NoteAll
        ELSE \A i \in 1..Len(pipeline.got) :
                 pipeline.got[i] \notin {NoteSpecific, NoteAll}

-----------------------------------------------------------------------------
(* C19 *)

\* the stages entered so far are the beginning of retrieve, generate, done
StagesInOrder ==
    /\ Len(pipeline.stages) <= 3
    /\ pipeline.stages = SubSeq(<<"retrieve", "generate", "done">>, 1,
                                Len(pipeline.stages))
    /\ pipeline.stage # "idle" =>
          pipeline.stage = pipeline.stages[Len(pipeline.stages)]

\* C19: a call of run enters retrieve, generate and done once each, in that
\* order, the node of each stage returns, and every call that has started
\* reaches done.
C19_RunStages ==
    /\ [](StagesInOrder /\ NodeReturns)
    /\ (pipeline.stage = "retrieve") ~> (pipeline.stage = "done")

\* a run with a blank question has reached done
C19_Witness ==
    /\ pipeline.stage = "done"
    /\ pipeline.stages = <<"retrieve", "generate", "done">>
    /\ pipeline.question \in BlankQuestions

-----------------------------------------------------------------------------
(* C20 *)

\* C20: the answer of every call of run is a generator, consumed lazily, and
\* once the consumer has iterated over it to its end a second iteration
\* yields nothing.
C20_AnswerIsStream ==
    pipeline.stage = "done" =>
        /\ pipeline.answer.kind = "generator"
        /\ (pipeline.passes >= 2 /\ ~pipeline.open) => pipeline.got = <<>>


-----------------------------------------------------------------------------
(* C21 *)

\* the last completed call was an ingestion, of a file or of a page
Ingested == Called("ingest") \/ Called("ingest_url")

\* the id the loader gives chunk i (1-based) of the document of the last
\* ingestion
LastChunkId(i) ==
    IF Called("ingest") THEN IngestChunkId(last.space_id, last.title, i - 1)
    ELSE UrlChunkId(last.space_id, last.title, i - 1)

\* the position of the first chunk of the last ingested document that
\* mentions entity
FirstMention(entity) ==
    CHOOSE i \in 1..Len(last.doc) :
        /\ entity \in SeqToSet(Entities(last.doc[i]))
        /\ \A j \in 1..(i - 1) : entity \notin SeqToSet(Entities(last.doc[j]))

\* the labels and properties add_node is tried with on a stored id
OtherLabels == {EntityLabel, RelatedLabel}
OtherProps  == {[source_chunk |-> "1_7_0"], [source_chunk |-> "other"]}

\* C21: add_node with an id already in the node set changes nothing, whatever
\* label and properties it is called with; an ingestion leaves every node that
\* was there with the label and properties of its first insertion, and a node
\* it adds carries the tag of the first chunk that mentions it; the node set
\* holds one row for each id.
C21_AddNodeIdempotent ==
    /\ \A id \in DOMAIN nodes, label \in OtherLabels, props \in OtherProps :
          add_node(Store, id, label, props) = Store
    /\ Ingested =>
          /\ \A id \in DOMAIN prev.nodes :
                id \in DOMAIN nodes /\ nodes[id] = prev.nodes[id]
          /\ \A id \in DOMAIN nodes \ DOMAIN prev.nodes :
                /\ \E i \in 1..Len(last.doc) :
                      id \in SeqToSet(Entities(last.doc[i]))
                /\ nodes[id] =
                      [label |-> EntityLabel,
                       properties |->
                           [source_chunk |-> LastChunkId(FirstMention(id))]]
          /\ Cardinality(DOMAIN nodes) =
                Cardinality(DOMAIN prev.nodes
                            \cup UNION { SeqToSet(Entities(last.doc[i])) :
                                         i \in 1..Len(last.doc) })

\* an ingestion met an entity whose node had been written for another chunk
C21_Witness ==
    /\ Ingested
    /\ \E id \in DOMAIN prev.nodes :
          /\ \E i \in 1..Len(last.doc) : id \in SeqToSet(Entities(last.doc[i]))
          /\ prev.nodes[id].properties.source_chunk # LastChunkId(1)
          /\ nodes[id] = prev.nodes[id]

-----------------------------------------------------------------------------
(* Summarization: the calls of generate_summary *)

\* MaxExtra: the texts summarised are up to MaxExtra characters longer than
\* each of the two limits
MaxExtra == 1

\* a text of n characters that differ from place to place
Digits == <<"0", "1", "2", "3", "4", "5", "6", "7", "8", "9">>
TextOfLen(n) == [i \in 1..n |-> Digits[(i % 10) + 1]]

\* full_text as the views pass it: empty, short, and around the two limits
SummaryTexts ==
    { TextOfLen(n) : n \in {0, 3} }
    \cup { TextOfLen(summary_chars + d) : d \in 0..MaxExtra }
    \cup { TextOfLen(prompt_chars + d) : d \in 0..MaxExtra }

GenerateSummary ==
    /\ ~summary.called
    /\ \E text \in SummaryTexts, env \in SummaryEnvs :
           LET r == generate_summary(text, env)
           IN  summary' = [called |-> TRUE, text |-> text, env |-> env,
                           value |-> r.value, attempts |-> r.attempts,
                           raised |-> r.raised]
    /\ UNCHANGED <<chunks, nodes, edges, vss, prev, last, pipeline, site,
                   running>>

\* the caller takes the summary
SummaryReturn ==
    /\ summary.called
    /\ summary' = NoSummary
    /\ UNCHANGED <<chunks, nodes, edges, vss, prev, last, pipeline, site,
                   running>>

SummaryNext ==
    \/ GenerateSummary
    \/ SummaryReturn

SummarySpec == Init /\ [][SummaryNext]_vars

-----------------------------------------------------------------------------
(* C22 *)

\* the place of a tier of generate_summary in the order of the fallback
SummaryRank(tier) ==
    IF tier = "remote" THEN 1 ELSE IF tier = "local" THEN 2 ELSE 3

\* C22: generate_summary enters its tiers in the order remote, local, naive,
\* the local tier only when the remote tier returned no summary, and the
\* value comes from the last tier entered; no exception leaves it; when the
\* naive tier answers, the value is the text itself if it has at most 500
\* characters and otherwise the first 500 characters of the text followed by
\* "...".
C22_SummaryFallback ==
    summary.called =>
        LET a == summary.attempts
        IN  /\ ~summary.raised
            /\ a # <<>>
            /\ \A i \in 1..Len(a) : a[i] \in {"remote", "local", "naive"}
            /\ \A i, j \in 1..Len(a) :
                   i < j => SummaryRank(a[i]) < SummaryRank(a[j])
            /\ a[1] = "remote" <=> summary.env.api_key
            /\ a[Len(a)] = "remote"
                   <=> summary.env.api_key /\ summary.env.remote = "ok"
            /\ a[Len(a)] = "remote" => summary.value = Trim(RemoteContent)
            /\ a[Len(a)] = "local" =>
                  /\ summary.env.local = "ok"
                  /\ summary.value = Trim(LocalContent)
            /\ a[Len(a)] = "naive" =>
                  /\ summary.env.local # "ok"
                  /\ a[Len(a) - 1] = "local"
                  /\ IF Len(summary.text) <= summary_chars
                     THEN summary.value = summary.text
                     ELSE /\ Len(summary.value) = summary_chars + 3
                          /\ \A i \in 1..summary_chars : summary.value[i] = summary.text[i]
                          /\ \A i \in 1..3 :
                                 summary.value[summary_chars + i] = "."

\* both backends raised on a text longer than the prompt limit and the naive
\* tier answered
C22_Witness ==
    /\ summary.called
    /\ summary.attempts = <<"remote", "local", "naive">>
    /\ summary.env.remote = "raises"
    /\ summary.env.local = "raises"
    /\ Len(summary.text) > prompt_chars
    /\ Len(summary.value) = summary_chars + 3

-----------------------------------------------------------------------------
(* Store calls, statement by statement: ingest, ingest_url and delete_document
   as the sequences of statements they send to the one connection the views
   share *)

IngestBegin ==
    /\ Idle
    /\ \E kind \in {"file", "url"}, space_id \in Tenants :
           \E source \in (IF kind = "file" THEN FileSources ELSE Urls),
              doc \in (IF kind = "file" THEN FileDocs ELSE UrlDocs) :
               /\ Len(chunks) + Len(doc) <= MaxChunks
               /\ Len(edges) < MaxEdges
               /\ running' = [running EXCEPT !.ingest =
                      [NoIngest EXCEPT !.pc = "embed", !.kind = kind,
                                       !.space_id = space_id,
                                       !.source = source, !.doc = doc,
                                       !.i = 1]]
    /\ prev' = Store
    /\ UNCHANGED <<chunks, nodes, edges, vss, last, pipeline, summary, site>>

\* ingest and delete_document of the same (space_id, source) are called, the
\* one while the other runs
RaceBegin ==
    /\ Idle
    /\ \E kind \in {"file", "url"}, space_id \in Tenants :
           \E source \in (IF kind = "file" THEN FileSources ELSE Urls),
              doc \in (IF kind = "file" THEN FileDocs ELSE UrlDocs) :
               /\ Len(chunks) + Len(doc) <= MaxChunks
               /\ Len(edges) < MaxEdges
               /\ running' =
                      [ingest |->
                          [NoIngest EXCEPT !.pc = "embed", !.kind = kind,
                                           !.space_id = space_id,
                                           !.source = source, !.doc = doc,
                                           !.i = 1],
                       delete |->
                          [NoDelete EXCEPT !.pc = "select",
                                           !.space_id = space_id,
                                           !.document_title = source]]
    /\ prev' = Store
    /\ UNCHANGED <<chunks, nodes, edges, vss, last, pipeline, summary, site>>

\* embedding = self._get_embedding(...); data_to_insert.append(...); words
\* and entities of _extract_graph
IngestEmbed ==
    /\ running.ingest.pc = "embed"
    /\ LET c   == running.ingest
           row == [id |-> CallChunkId(c), content |-> c.doc[c.i],
                   embedding |-> _get_embedding(c.doc[c.i]),
                   metadata |-> [source |-> c.source]]
       IN  running' = [running EXCEPT !.ingest =
               AfterNodes([c EXCEPT !.data_to_insert = Append(@, row),
                                    !.pc = "nodes",
                                    !.ents = SeqToSet(Entities(c.doc[c.i]))])]
    /\ UNCHANGED <<chunks, nodes, edges, vss, prev, last, pipeline, summary,
                   site>>

\* the embedding provider raises
IngestEmbedRaises ==
    /\ running.ingest.pc = "embed"
    /\ running' = [running EXCEPT !.ingest.pc = "raised"]
    /\ UNCHANGED <<chunks, nodes, edges, vss, prev, last, pipeline, summary,
                   site>>

\* self.store.add_node(entity, "Entity", {"source_chunk": chunk_id}) for one
\* entity of set(entities), in whatever order the set gives them
IngestAddNode ==
    /\ running.ingest.pc = "nodes"
    /\ LET c == running.ingest
       IN  \E entity \in c.ents :
               /\ SetStore(add_node(Store, entity, EntityLabel,
                                    [source_chunk |-> CallChunkId(c)]))
               /\ running' = [running EXCEPT !.ingest =
                       AfterNodes([c EXCEPT !.ents = @ \ {entity}])]
    /\ UNCHANGED <<vss, prev, last, pipeline, summary, site>>

\* self.store.add_edge(entities[i], entities[i+1], "RELATED", ...); the
\* INSERT raises when a node it references is not in the table
IngestAddEdge ==
    /\ running.ingest.pc = "edges"
    /\ LET c        == running.ingest
           entities == Entities(c.doc[c.i])
       IN  IF ForeignKeysHold(Store, entities[c.e], entities[c.e + 1])
           THEN /\ SetStore(add_edge(Store, entities[c.e], entities[c.e + 1],
                                     RelatedLabel,
                                     [source_chunk |-> CallChunkId(c)],
                                     Origin(c.space_id, c.source)))
                /\ running' = [running EXCEPT !.ingest =
                        AfterEdges([c EXCEPT !.e = @ + 1])]
           ELSE /\ running' = [running EXCEPT !.ingest.pc = "raised"]
                /\ UNCHANGED <<chunks, nodes, edges>>
    /\ UNCHANGED <<vss, prev, last, pipeline, summary, site>>

\* one INSERT INTO chunks of add_chunks
IngestInsert ==
    /\ running.ingest.pc = "insert"
    /\ LET c == running.ingest
       IN  /\ SetStore(add_chunks(Store, <<c.data_to_insert[c.j]>>, c.space_id))
           /\ running' = [running EXCEPT !.ingest =
                   AfterInserts([c EXCEPT !.j = @ + 1])]
    /\ UNCHANGED <<vss, prev, last, pipeline, summary, site>>

\* the INSERT raises
IngestInsertRaises ==
    /\ running.ingest.pc = "insert"
    /\ running' = [running EXCEPT !.ingest.pc = "raised"]
    /\ UNCHANGED <<chunks, nodes, edges, vss, prev, last, pipeline, summary,
                   site>>

\* SELECT id, metadata FROM chunks WHERE ...; chunk_ids = [c[0] for c in chunks]
DeleteSelect ==
    /\ running.delete.pc = "select"
    /\ LET d     == running.delete
           found == SelectSeq(chunks, LAMBDA c :
                        InDocument(c, d.space_id, d.document_title))
       IN  running' = [running EXCEPT !.delete =
               [d EXCEPT !.pc = "delete_chunks",
                         !.chunk_ids = [i \in 1..Len(found) |-> found[i].id]]]
    /\ UNCHANGED <<chunks, nodes, edges, vss, prev, last, pipeline, summary,
                   site>>

\* DELETE FROM chunks WHERE ...; then "if chunk_ids:"
DeleteChunks ==
    /\ running.delete.pc = "delete_chunks"
    /\ LET d == running.delete
       IN  /\ chunks' = SelectSeq(chunks, LAMBDA c :
                            ~InDocument(c, d.space_id, d.document_title))
           /\ running' = [running EXCEPT !.delete.pc =
                   IF d.chunk_ids # <<>> THEN "delete_edges" ELSE "done"]
    /\ UNCHANGED <<nodes, edges, vss, prev, last, pipeline, summary, site>>

\* DELETE FROM edges WHERE source_chunk IN (chunk_ids)
DeleteEdges ==
    /\ running.delete.pc = "delete_edges"
    /\ edges' = SelectSeq(edges, LAMBDA e :
                    ~TaggedIn(e, SeqToSet(running.delete.chunk_ids)))
    /\ running' = [running EXCEPT !.delete.pc = "delete_nodes"]
    /\ UNCHANGED <<chunks, nodes, vss, prev, last, pipeline, summary, site>>

\* DELETE FROM nodes WHERE source_chunk IN (chunk_ids) AND id not in any edge
DeleteNodes ==
    /\ running.delete.pc = "delete_nodes"
    /\ LET keptIds == { id \in DOMAIN nodes :
                          ~(TaggedIn(nodes[id],
                                     SeqToSet(running.delete.chunk_ids))
                            /\ Unreferenced(id, edges)) }
       IN  nodes' = [id \in keptIds |-> nodes[id]]
    /\ running' = [running EXCEPT !.delete.pc = "done"]
    /\ UNCHANGED <<chunks, edges, vss, prev, last, pipeline, summary, site>>

\* the calls have returned or raised, and the views go on
CallsEnd ==
    /\ running # NoCalls
    /\ running.ingest.pc \in {"idle", "done", "raised"}
    /\ running.delete.pc \in {"idle", "done"}
    /\ running' = NoCalls
    /\ prev' = EmptyStore
    /\ UNCHANGED <<chunks, nodes, edges, vss, last, pipeline, summary, site>>

\* ingestion alone, with a provider and a store that can fail
FailNext ==
    \/ IngestBegin
    \/ IngestEmbed
    \/ IngestEmbedRaises
    \/ IngestAddNode
    \/ IngestAddEdge
    \/ IngestInsert
    \/ IngestInsertRaises
    \/ CallsEnd

FailSpec == Init /\ [][FailNext]_vars

\* ingestion and deletion of one document, their statements interleaved
RaceNext ==
    \/ RaceBegin
    \/ IngestEmbed
    \/ IngestAddNode
    \/ IngestAddEdge
    \/ IngestInsert
    \/ DeleteSelect
    \/ DeleteChunks
    \/ DeleteEdges
    \/ DeleteNodes
    \/ CallsEnd

RaceSpec == Init /\ [][RaceNext]_vars

-----------------------------------------------------------------------------
(* C23 *)

\* both calls of the race have ended
RaceOver ==
    /\ running.ingest.pc \in {"done", "raised"}
    /\ running.delete.pc = "done"

\* the call of ingest or ingest_url in progress, made on st as one step
SerialIngest(st) ==
    LET c == running.ingest
    IN  IF c.kind = "file" THEN ingest(st, c.doc, c.space_id, c.source)
        ELSE ingest_url(st, c.doc, c.source, c.space_id)

\* the call of delete_document in progress, made on st as one step
SerialDelete(st) ==
    delete_document(st, running.delete.space_id,
                    running.delete.document_title).st

\* two tables hold the same rows, each as many times
SameRows(a, b) ==
    \A r \in SeqToSet(a) \cup SeqToSet(b) :
        Len(SelectSeq(a, LAMBDA x : x = r)) = Len(SelectSeq(b, LAMBDA x : x = r))

SameContents(st1, st2) ==
    /\ SameRows(st1.chunks, st2.chunks)
    /\ st1.nodes = st2.nodes
    /\ SameRows(st1.edges, st2.edges)

\* C23: when ingest and delete_document of the same (tenant, source) run
\* with their statements interleaved, neither call raises, and once both
\* have ended the tables hold what one of the two serial orders leaves:
\* ingest then delete, or delete then ingest.
C23_RaceIsSerial ==
    RaceOver =>
        /\ running.ingest.pc = "done"
        /\ \/ SameContents(Store, SerialDelete(SerialIngest(prev)))
           \/ SameContents(Store, SerialIngest(SerialDelete(prev)))

-----------------------------------------------------------------------------
(* C30 *)

\* C30: when ingest or ingest_url raises part-way, the tables are as they
\* were before the call, and once an ingestion call has ended every edge
\* carries the id of a stored chunk.
C30_IngestAllOrNothing ==
    /\ running.ingest.pc = "raised" => Store = prev
    /\ running.ingest.pc \in {"done", "raised"} =>
          \A e \in SeqToSet(edges) :
              \E c \in SeqToSet(chunks) : c.id = e.properties.source_chunk

-----------------------------------------------------------------------------
(* Web application: spaces and their members *)

\* the usernames posted to manage_users: the accounts and a name no account has
Usernames == Users \cup {"nobody"}

ManageActions == {"add", "remove", "update_role"}

\* POST to create_space
CreateSpace ==
    /\ site.spaces_made < Len(SpaceIds)
    /\ \E user \in Requesters, is_public \in BOOLEAN :
           LET r == create_space(site, user, is_public)
           IN  site' = [r.site EXCEPT
                           !.request = [view |-> "create_space", user |-> user],
                           !.response = r.response]
    /\ UNCHANGED <<chunks, nodes, edges, vss, prev, last, pipeline, summary,
                   running>>

\* POST to manage_users
ManageUsers ==
    /\ \E user \in Requesters, space_id \in DOMAIN site.spaces,
          action \in ManageActions, username \in Usernames, role \in Roles :
           LET r == manage_users(site, user, space_id, action, username, role)
           IN  site' = [r.site EXCEPT
                           !.request = [view |-> "manage_users", user |-> user],
                           !.response = r.response]
    /\ UNCHANGED <<chunks, nodes, edges, vss, prev, last, pipeline, summary,
                   running>>

MembersNext ==
    \/ CreateSpace
    \/ ManageUsers

MembersSpec == Init /\ [][MembersNext]_vars

-----------------------------------------------------------------------------
(* C24 *)

\* the users other than user who hold an 'owner' permission on space
OtherOwners(space, user) ==
    { u \in Users \ {user} : HasRole(space, u, "owner") }

\* C24: every space has an account as its owner, and in every state the site
\* reaches, a POST to manage_users that asks to remove the owner of a space
\* does so only when the request comes from an owner and another user holds
\* an 'owner' permission on the space: then space.owner becomes such a user,
\* the removed owner holds no permission and the other permissions stay as
\* they were; otherwise the space is left as it was.
C24_OwnerRemoval ==
    \A id \in DOMAIN site.spaces :
        /\ site.spaces[id].owner \in Users
        /\ \A user \in Requesters, role \in Roles :
              LET before == site.spaces[id]
                  others == OtherOwners(before, before.owner)
                  after  == manage_users(site, user, id, "remove",
                                         before.owner, role).site.spaces[id]
              IN  IF is_space_owner(user, before) /\ others # {}
                  THEN /\ after.owner \in others
                       /\ PermissionsOf(after, before.owner) = <<>>
                       /\ after.permissions =
                             SelectSeq(before.permissions, LAMBDA perm :
                                 perm.user # before.owner)
                  ELSE after = before

\* a co-owner has removed the owner of a space and is its owner now, with
\* other members left in the space
C24_Witness ==
    /\ site.request.view = "manage_users"
    /\ site.response.message = "Transferred ownership"
    /\ \E id \in DOMAIN site.spaces :
          /\ site.spaces[id].owner = site.request.user
          /\ Len(site.spaces[id].permissions) > 1

-----------------------------------------------------------------------------
(* C29 *)

\* a user who is neither staff nor superuser
IsStandardUser(user) == ~(is_staff(user) \/ is_superuser(user))

\* C29: no standard user holds the 'owner' role on a space or is its
\* space.owner.
C29_NoStandardOwner ==
    \A id \in DOMAIN site.spaces, user \in Users :
        IsStandardUser(user) =>
            /\ site.spaces[id].owner # user
            /\ ~HasRole(site.spaces[id], user, "owner")
-----------------------------------------------------------------------------
(* Web application: documents, and who is served *)

\* the view took the request and answered it
Served(view, user, r) ==
    site' = [r.site EXCEPT !.request = [view |-> view, user |-> user],
                           !.response = r.response]

\* a view that writes nothing answered the request
Answered(view, user, response) ==
    site' = [site EXCEPT !.request = [view |-> view, user |-> user],
                         !.response = response]

\* POST to upload_document, one file
UploadDocument ==
    /\ Idle
    /\ site.documents_made < Len(DocIds)
    /\ \E user \in Requesters, space_id \in DOMAIN site.spaces,
          f \in FileNames, doc \in FileDocs, provider_ok \in BOOLEAN :
           LET r == upload_document(site, Store, user, space_id, f, doc,
                                    provider_ok)
           IN  /\ Len(chunks) + Len(doc) <= MaxChunks
               /\ Served("upload_document", user, r)
               /\ SetStore(r.store)
    /\ UNCHANGED <<vss, prev, last, pipeline, summary, running>>

\* POST to ingest_url_view, one url
IngestUrlView ==
    /\ Idle
    /\ site.documents_made < Len(DocIds)
    /\ \E user \in Requesters, space_id \in DOMAIN site.spaces,
          url \in Urls, doc \in UrlDocs, provider_ok \in BOOLEAN :
           LET r == ingest_url_view(site, Store, user, space_id, url, doc,
                                    provider_ok)
           IN  /\ Len(chunks) + Len(doc) <= MaxChunks
               /\ Served("ingest_url_view", user, r)
               /\ SetStore(r.store)
    /\ UNCHANGED <<vss, prev, last, pipeline, summary, running>>

\* POST to the view delete_document
DeleteDocumentView ==
    /\ Idle
    /\ \E user \in Requesters, space_id \in DOMAIN site.spaces,
          i \in 1..Len(DocIds) :
           LET r == delete_document_view(site, Store, user, space_id,
                                         DocIds[i])
           IN  /\ Served("delete_document", user, r)
               /\ SetStore(r.store)
    /\ UNCHANGED <<vss, prev, last, pipeline, summary, running>>

SpaceView ==
    /\ \E user \in Requesters, space_id \in DOMAIN site.spaces :
           Answered("space_view", user, space_view(site, user, space_id))
    /\ UNCHANGED <<chunks, nodes, edges, vss, prev, last, pipeline, summary,
                   running>>

ChatApi ==
    /\ \E user \in Requesters, space_id \in DOMAIN site.spaces,
          method \in Methods, message \in ChatMessages :
           Answered("chat_api", user,
                    chat_api(site, user, space_id, method, message))
    /\ UNCHANGED <<chunks, nodes, edges, vss, prev, last, pipeline, summary,
                   running>>

\* the paths asked of serve_protected_media: the file of an upload, under
\* the directory of its space and without it
MediaPaths ==
    { [dir |-> d, filename |-> FileName(f)] :
          d \in {""} \cup { "space_" \o SpaceIds[i] : i \in 1..Len(SpaceIds) },
          f \in FileNames }

ServeProtectedMedia ==
    /\ \E user \in Requesters, path \in MediaPaths :
           Answered("serve_protected_media", user,
                    serve_protected_media(site, user, path))
    /\ UNCHANGED <<chunks, nodes, edges, vss, prev, last, pipeline, summary,
                   running>>

AccessNext ==
    \/ CreateSpace
    \/ ManageUsers
    \/ UploadDocument
    \/ SpaceView
    \/ ChatApi
    \/ ServeProtectedMedia

AccessSpec == Init /\ [][AccessNext]_vars

DocsNext ==
    \/ CreateSpace
    \/ UploadDocument
    \/ IngestUrlView
    \/ DeleteDocumentView

DocsSpec == Init /\ [][DocsNext]_vars

-----------------------------------------------------------------------------
(* C25 *)

\* user is the owner of the space or holds a permission on it
Permitted(user, space) ==
    /\ user \in Users
    /\ \/ space.owner = user
       \/ \E i \in 1..Len(space.permissions) : space.permissions[i].user = user

\* the paths of the files of the documents of a space
FilePathsOf(space_id) ==
    { path \in MediaPaths :
          \E i \in 1..Len(site.documents) :
              /\ site.documents[i].space_id = space_id
              /\ site.documents[i].file = "documents/" \o MediaPath(path) }

\* the status with which a private space turns a requester away: 403 for a
\* login, anonymous_status for a request that carries none
Refusal(user, anonymous_status) ==
    IF user \in Users THEN status_forbidden ELSE anonymous_status

\* C25: in every state the site reaches, for every space and every requester:
\* if the space is public, or the requester is its owner or holds a
\* permission on it, space_view answers 200, chat_api answers a question
\* with 200 and serve_protected_media serves the files of the space with 200;
\* otherwise space_view and serve_protected_media answer 403 to a login and
\* redirect an anonymous request to the login page, chat_api answers 403 to
\* both, whatever is posted, and none of the three returns the page, an
\* answer or a file.
C25_PrivateSpaceAccess ==
    \A space_id \in DOMAIN site.spaces, user \in Requesters :
        LET space == site.spaces[space_id]
            admitted == space.is_public \/ Permitted(user, space)
            page == space_view(site, user, space_id)
        IN  /\ page.status = IF admitted THEN status_ok
                             ELSE Refusal(user, status_redirect)
            /\ ~admitted => page.body # "space_view.html"
            /\ ~admitted /\ user \notin Users => page = LoginRedirect
            /\ \A method \in Methods, message \in ChatMessages :
                  LET chat == chat_api(site, user, space_id, method, message)
                  IN  /\ ~admitted => /\ chat.status = status_forbidden
                                      /\ chat.body # "answer"
                      /\ admitted /\ method = "POST" /\ message = TextA =>
                            /\ chat.status = status_ok
                            /\ chat.body = "answer"
            /\ \A path \in FilePathsOf(space_id) :
                  LET media == serve_protected_media(site, user, path)
                  IN  /\ media.status = IF admitted THEN status_ok
                                        ELSE Refusal(user, status_redirect)
                      /\ ~admitted => media.body # "file"
                      /\ ~admitted /\ user \notin Users =>
                            media = LoginRedirect

\* a login that the private space does not admit has asked for the file of a
\* document of the space and got 403, while a member that is no owner is
\* admitted
C25_Witness ==
    /\ site.request.view = "serve_protected_media"
    /\ site.request.user \in Users
    /\ site.response = Forbidden
    /\ \E space_id \in DOMAIN site.spaces :
          /\ ~site.spaces[space_id].is_public
          /\ ~Permitted(site.request.user, site.spaces[space_id])
          /\ FilePathsOf(space_id) # {}
          /\ \E user \in Users :
                /\ Permitted(user, site.spaces[space_id])
                /\ ~is_space_owner(user, site.spaces[space_id])

-----------------------------------------------------------------------------
(* C28 *)

\* C28: in every state the site reaches, for every processed document of a
\* space, uploaded file or ingested URL, and every owner of the space: after
\* the view delete_document has answered the owner's request for that
\* document, the row of the document is gone and the store holds no chunk and
\* no edge that the ingestion of the document wrote.
C28_ViewDeletesRagData ==
    \A i \in 1..Len(site.documents), user \in Users :
        LET doc == site.documents[i]
            r   == delete_document_view(site, Store, user, doc.space_id,
                                        doc.id)
        IN  doc.processed /\ is_space_owner(user, site.spaces[doc.space_id]) =>
                /\ DocumentsWith(r.site, doc.space_id, doc.id) = <<>>
                /\ DocChunks(r.store, doc.space_id, doc.source) = <<>>
                /\ \A e \in SeqToSet(r.store.edges) :
                      ~DerivedFrom(e, doc.space_id, doc.source)

-----------------------------------------------------------------------------
(* Extraction: chunks that name an entity more than once *)

TextABA == Join(<<Acme, BetaDot, Acme>>)
TextAA  == Join(<<Acme, Acme>>)

\* files whose chunks repeat an entity, next to a chunk that names none
RepeatDocs == { <<TextABA>>, <<TextAA>>, <<TextL, TextAA>> }

\* DocumentIngestor.ingest of such a file
IngestRepeat ==
    /\ Idle
    /\ \E space_id \in Tenants, source \in FileSources, doc \in RepeatDocs :
           /\ Len(chunks) + Len(doc) <= MaxChunks
           /\ SetStore(ingest(Store, doc, space_id, source))
           /\ prev' = Store
           /\ last' = [NoCall EXCEPT !.op = "ingest", !.space_id = space_id,
                                     !.title = source, !.doc = doc]
           /\ UNCHANGED <<vss, pipeline, summary, site, running>>

ExtractNext ==
    \/ Ingest
    \/ IngestUrl
    \/ IngestRepeat
    \/ Return

ExtractSpec == Init /\ [][ExtractNext]_vars

-----------------------------------------------------------------------------
(* C26 *)

\* the edges the last call appended
NewEdges == SubSeq(edges, Len(prev.edges) + 1, Len(edges))

\* those of them tagged with the id of chunk i of the document
NewEdgesOf(i) ==
    SelectSeq(NewEdges, LAMBDA e : e.properties.source_chunk = LastChunkId(i))

\* C26: after an ingestion, for every chunk of the document with the entity
\* candidates e1..en in order, duplicates kept: every distinct entity has one
\* node, with label "Entity"; the edges added with the tag of the chunk are
\* exactly the n-1 edges e_k -> e_k+1 in order, with label "RELATED", and
\* none when n is 0 or 1; the ingestion adds no other edge and no other
\* node, and leaves the edges that were there as they were.
C26_ConsecutiveEdges ==
    Ingested =>
        /\ Len(edges) >= Len(prev.edges)
        /\ SubSeq(edges, 1, Len(prev.edges)) = prev.edges
        /\ \A e \in SeqToSet(NewEdges) :
              \E i \in 1..Len(last.doc) :
                  e.properties.source_chunk = LastChunkId(i)
        /\ DOMAIN nodes =
              DOMAIN prev.nodes \cup
              UNION { SeqToSet(Entities(last.doc[i])) : i \in 1..Len(last.doc) }
        /\ \A i \in 1..Len(last.doc) :
              LET e == Entities(last.doc[i])
                  n == Len(e)
              IN  /\ Len(NewEdgesOf(i)) = IF n = 0 THEN 0 ELSE n - 1
                  /\ \A k \in 1..Len(NewEdgesOf(i)) :
                        /\ NewEdgesOf(i)[k].source = e[k]
                        /\ NewEdgesOf(i)[k].target = e[k + 1]
                        /\ NewEdgesOf(i)[k].label = RelatedLabel
                  /\ \A k \in 1..n :
                        /\ e[k] \in DOMAIN nodes
                        /\ nodes[e[k]].label = EntityLabel

\* a chunk that names Acme, Beta and Acme again has been ingested: two
\* nodes, and the two edges Acme -> Beta and Beta -> Acme
C26_Witness ==
    /\ Ingested
    /\ \E i \in 1..Len(last.doc) :
          /\ last.doc[i] = TextABA
          /\ Entities(last.doc[i]) = <<Acme, Beta, Acme>>
          /\ Len(NewEdgesOf(i)) = 2
          /\ NewEdgesOf(i)[2].source = Beta
          /\ NewEdgesOf(i)[2].target = Acme
    /\ DOMAIN nodes = {Acme, Beta}

-----------------------------------------------------------------------------
(* C27 *)

\* C27: after every completed ingest, ingest_url, delete_document and
\* delete_space, every node of the store is the source or the target of an
\* edge that is stored, or carries the id of a chunk that is stored.
C27_NoOrphanNodes ==
    \A node_id \in DOMAIN nodes :
        \/ \E e \in SeqToSet(edges) : Touches(e, node_id)
        \/ \E c \in SeqToSet(chunks) :
               c.id = nodes[node_id].properties.source_chunk

=============================================================================
